---- MODULE Spec2Model ----
(***************************************************************************)
(* cloud_common: the datastore-backed scheduler, notification ledger and   *)
(* runs ledger of src/cc/notifications, over the sharded DeviceData        *)
(* convention of src/cc/google/datastore.py.                               *)
(*                                                                         *)
(* Time.  datetime.utcnow() is a record [s, us]: whole seconds and the     *)
(* microsecond part.  strftime('%FT%XZ') keeps the seconds only and        *)
(* isoformat() keeps both.  The strings these produce are fixed width and  *)
(* zero padded, so Python's string comparison of two of them is the        *)
(* comparison of the numbers, which is how they are compared here.  Every  *)
(* read of the clock returns a later instant than the read before it: the  *)
(* calls are separated by blocking datastore round trips.                  *)
(*                                                                         *)
(* Python's None is the empty tuple <<>>, and a value v of an optional     *)
(* field (a URL, the end of a run, a query limit) is <<v>>.                *)
(***************************************************************************)
EXTENDS Integers, Sequences, FiniteSets, TLC

\* ------------------------------------------------------------------ bounds
\* Number of steps (public calls and jumps of the clock) in one behaviour.
MaxOps == 3

\* Number of steps in one behaviour of SpecFire.
MaxFireOps == 2

\* Number of steps in one behaviour of SpecCrash.
MaxCrashOps == 3

\* Number of calls in one behaviour of SpecAccess.
MaxAccessOps == 2

\* Number of messages in one behaviour of SpecMqtt.
MaxMqttOps == 1

\* Number of queries in one behaviour of SpecWeather, and the greatest
\* length of the cached list they read.
MaxWeatherOps == 1
MaxCached == 3

\* Number of calls in one behaviour of SpecSessions.
MaxSessionOps == 2

\* Number of calls in one behaviour of SpecIot.
MaxIotOps == 2

\* Number of calls in one behaviour of SpecRace, and of calls and pauses in
\* one of SpecRunsRace.
MaxRaceOps == 3
MaxRunsRaceOps == 5

\* ------------------------------------------------------------- constants
SecPerHour == 3600

None == <<>>
Some(v) == <<v>>

Devices == {"d1", "d2"}

\* The processes that call the library at the same time.
Callers == {"a", "b"}

\* A caller that is inside no call.
Idle == [pc |-> "idle"]

\* datastore.py: entity kinds and DeviceData property names
DS_device_data_KIND == "DeviceData"
DS_images_KIND == "Images"
DS_devices_KIND == "Devices"
DS_user_session_KIND == "UserSession"
DS_co2_KEY == "air_carbon_dioxide_ppm"
DS_rh_KEY == "air_humidity_percent"
DS_temp_KEY == "air_temperature_celsius"
DS_led_KEY == "light_spectrum_nm_percent"
DS_led_dist_KEY == "light_illumination_distance_cm"
DS_led_intensity_KEY == "light_intensity_watts"
DS_boot_KEY == "boot"
DS_status_KEY == "status"
DS_h20_ec_KEY == "water_electrical_conductivity_ms_cm"
DS_h20_ph_KEY == "water_potential_hydrogen"
DS_h20_temp_KEY == "water_temperature_celcius"
DS_runs_KEY == "runs"
DS_notifications_KEY == "notifications"
DS_schedule_KEY == "schedule"

Properties == {DS_runs_KEY, DS_notifications_KEY, DS_schedule_KEY}

\* ---------------------------------------------------------------- state
VARIABLES
  ds,             \* the stores: datastore kind -> set of entities, and the
                  \* InfluxDB database -> points written, oldest first
  clock,          \* the wall clock, [s, us]
  testing_hours,  \* Scheduler.__testing_hours
  steps,          \* steps taken so far
  hist,           \* the public calls made so far, oldest first
  inflight        \* caller -> the call it is inside of, and how far it has got

vars == <<ds, clock, testing_hours, steps, hist, inflight>>

\* ----------------------------------------------------------------- time
\* One read of datetime.utcnow(): the caller gets w.clock, the clock moves on.
Tick(c) == [c EXCEPT !.us = @ + 1]

\* dt + timedelta(hours=h)
plus_hours(t, h) == [t EXCEPT !.s = @ + h * SecPerHour]

\* t.strftime('%FT%XZ'): seconds resolution, the microseconds are dropped.
strftime(t) == t.s

\* t.isoformat(): microsecond resolution.
isoformat(t) == <<t.s, t.us>>

\* Order of two isoformat() strings.
TsLess(a, b) == a[1] < b[1] \/ (a[1] = b[1] /\ a[2] < b[2])

\* ------------------------------------------------------------ datastore
get_sharded_kind(kind, property_name, device_uuid) ==
  kind \o "_" \o property_name \o "_" \o device_uuid

get_device_data_kind(property_name, device_uuid) ==
  get_sharded_kind(DS_device_data_KIND, property_name, device_uuid)

Kinds == {get_device_data_kind(p, d) : p \in Properties, d \in Devices}

\* A query ordered by '-timestamp': newest first.
RECURSIVE OrderDesc(_)
OrderDesc(S) ==
  IF S = {} THEN <<>>
  ELSE LET m == CHOOSE e \in S : \A f \in S : ~TsLess(e.timestamp, f.timestamp)
       IN <<m>> \o OrderDesc(S \ {m})

\* query.fetch(limit=count): count is None or Some(n).
Fetch(seq, count) ==
  IF count = None \/ count[1] >= Len(seq) THEN seq ELSE SubSeq(seq, 1, count[1])

get_sharded_entities(w, kind, property_name, device_key, count) ==
  Fetch(OrderDesc(w.ds[get_sharded_kind(kind, property_name, device_key)]), count)

get_sharded_entity(w, kind, property_name, device_key, count) ==
  LET entities == get_sharded_entities(w, kind, property_name, device_key, count)
  IN [i \in 1..Len(entities) |-> entities[i].data]

\* A read that returns the oldest entries, oldest first.
get_device_data_oldest(w, property_name, device_uuid, count) ==
  LET all == get_sharded_entity(w, DS_device_data_KIND, property_name, device_uuid, None)
  IN Fetch([i \in 1..Len(all) |-> all[Len(all) + 1 - i]], count)

get_device_data(w, property_name, device_uuid, count) ==
  get_sharded_entity(w, DS_device_data_KIND, property_name, device_uuid, count)

\* DS.put(entity): an upsert by (kind, key).
DS_put(w, kind, e) ==
  [w EXCEPT !.ds[kind] = {x \in @ : x.key # e.key} \cup {e}]

\* DS.delete(key)
DS_delete(w, kind, key) ==
  [w EXCEPT !.ds[kind] = {x \in @ : x.key # key}]

\* The entity is keyed with its own timestamp, utcnow().isoformat().
save_dict_to_entity(w, entity_kind, entity_key, property_name, pydict) ==
  LET timestamp == isoformat(w.clock)
      kind == get_sharded_kind(entity_kind, property_name, entity_key)
      dd == [key |-> timestamp, data |-> pydict, timestamp |-> timestamp]
  IN DS_put([w EXCEPT !.clock = Tick(@)], kind, dd)

save_device_data(w, device_ID, property_name, pydict) ==
  save_dict_to_entity(w, DS_device_data_KIND, device_ID, property_name, pydict)

\* A query with the filter key = value, as the set of its results.
get_all_from_DS(w, kind, key, value) ==
  {e \in w.ds[kind] : key \in DOMAIN e.props /\ e.props[key] = value}

\* The first result of the filter key = value, as Some(entity), or None.
\* The query has no order; the callers filter on a UUID, which one entity has.
get_one_from_DS(w, kind, key, value) ==
  LET result == get_all_from_DS(w, kind, key, value)
  IN IF result = {} THEN None ELSE Some(CHOOSE e \in result : TRUE)

\* The numeric ID the datastore allocates for an entity put with a partial key.
allocate_id(w, kind) ==
  LET ids == {e.key : e \in w.ds[kind]}
  IN IF ids = {} THEN 1 ELSE 1 + (CHOOSE m \in ids : \A n \in ids : n <= m)

\* add_device_to_DS; device_uuid and user_uuid are what uuid.uuid4() drew.
add_device_to_DS(w, device_name, device_notes, device_uuid, user_uuid) ==
  DS_put([w EXCEPT !.clock = Tick(@)], DS_devices_KIND,
         [key |-> allocate_id(w, DS_devices_KIND),
          props |-> [device_name |-> device_name, device_notes |-> device_notes,
                     device_type |-> "EDU", registration_date |-> isoformat(w.clock),
                     device_uuid |-> device_uuid, user_uuid |-> user_uuid]])

\* delete_device_from_DS: deletes the Devices entity of the device, when
\* there is one.  The deletion of the DeviceData entities is commented out.
\* It returns True.
delete_device_from_DS(w, device_uuid) ==
  LET device == get_one_from_DS(w, DS_devices_KIND, "device_uuid", device_uuid)
  IN IF device # None THEN DS_delete(w, DS_devices_KIND, device[1].key) ELSE w

\* ----------------------------------------------------- notification_data
type_Done == "Done"

\* NotificationData.add; notification_ID is what utils.id_generator() drew.
NotificationData_add(w, device_ID, message, notification_type, URL, notification_ID) ==
  LET now == strftime(w.clock)
      notif_dict == [ID |-> notification_ID, type |-> notification_type,
                     message |-> message, created |-> now, URL |-> URL]
  IN save_device_data([w EXCEPT !.clock = Tick(@)], device_ID,
                      DS_notifications_KEY, notif_dict)

dd_property == DS_notifications_KEY

\* NotificationData.__get_all
NotificationData_get_all(w, device_ID) ==
  get_device_data(w, dd_property, device_ID, None)

\* A read of the ledger that returns the newest record only.
get_unacknowledged_newest(w, device_ID) ==
  get_device_data(w, dd_property, device_ID, Some(1))

\* NotificationData.get_unacknowledged
get_unacknowledged(w, device_ID) ==
  NotificationData_get_all(w, device_ID)

\* An ack that deletes every record holding the ID.
ack_every_match(w, device_ID, notification_ID) ==
  LET entities == get_sharded_entities(w, DS_device_data_KIND, dd_property,
                                       device_ID, None)
      hits == {i \in 1..Len(entities) : entities[i].data.ID = notification_ID}
  IN [w EXCEPT !.ds[get_device_data_kind(dd_property, device_ID)] =
        {x \in @ : \A i \in hits : x.key # entities[i].key}]

\* NotificationData.ack: scans the shard newest first and deletes the first
\* entity whose data holds the ID.
ack(w, device_ID, notification_ID) ==
  LET entities == get_sharded_entities(w, DS_device_data_KIND, dd_property,
                                       device_ID, None)
      hits == {i \in 1..Len(entities) : entities[i].data.ID = notification_ID}
  IN IF hits = {} THEN w
     ELSE DS_delete(w, get_device_data_kind(dd_property, device_ID),
                    entities[CHOOSE i \in hits : \A j \in hits : i <= j].key)

\* ------------------------------------------------------------- scheduler
schedule_property == DS_schedule_KEY

check_fluid_command == "check_fluid"
take_measurements_command == "take_measurements"
harvest_plant_command == "harvest_plant"
prune_plant_command == "prune_plant"

commands ==
  (check_fluid_command :>
     [message |-> "Check your fluid level",
      default_repeat_hours |-> 48, URL |-> None]) @@
  (take_measurements_command :>
     [message |-> "Record your plant measurements",
      default_repeat_hours |-> 24, URL |-> None]) @@
  (harvest_plant_command :>
     [message |-> "Time to harvest your plant",
      default_repeat_hours |-> 0, URL |-> None]) @@
  (prune_plant_command :>
     [message |-> "Time to prune your plant",
      default_repeat_hours |-> 48,
      URL |-> Some("https://www.youtube.com/watch?v=9noUUTuPh3E")])

get_schedule(w, device_ID) ==
  get_device_data(w, schedule_property, device_ID, None)

validate_command(command) == command \in DOMAIN commands

\* The newest entity of the device's schedule whose data names the command,
\* as Some(entity), or None.
get_command_entity(w, device_ID, command) ==
  IF ~validate_command(command) THEN None
  ELSE LET entities == get_sharded_entities(w, DS_device_data_KIND,
                                            schedule_property, device_ID, None)
           hits == {i \in 1..Len(entities) : entities[i].data.command = command}
       IN IF hits = {} THEN None
          ELSE Some(entities[CHOOSE i \in hits : \A j \in hits : i <= j])

remove_command(w, device_ID, command) ==
  LET entity == get_command_entity(w, device_ID, command)
  IN IF entity # None
     THEN DS_delete(w, get_device_data_kind(schedule_property, device_ID),
                    entity[1].key)
     ELSE w

RECURSIVE delete_each(_, _, _, _)
delete_each(w, kind, entities, i) ==
  IF i > Len(entities) THEN w
  ELSE delete_each(DS_delete(w, kind, entities[i].key), kind, entities, i + 1)

\* A remove_all_commands that empties the schedule of every device.
remove_all_commands_everywhere(w, device_ID) ==
  [w EXCEPT !.ds = [k \in DOMAIN @ |->
                      IF k \in {get_device_data_kind(schedule_property, d) : d \in Devices}
                      THEN {} ELSE @[k]]]

remove_all_commands(w, device_ID) ==
  LET entities == get_sharded_entities(w, DS_device_data_KIND,
                                       schedule_property, device_ID, None)
  IN IF Len(entities) = 0 THEN w
     ELSE delete_each(w, get_device_data_kind(schedule_property, device_ID),
                      entities, 1)

\* Deletes the newest entity of the command, then saves cmd_dict as a new one.
update_command(w, device_ID, cmd_dict) ==
  LET cmd_name == cmd_dict.command
  IN IF ~validate_command(cmd_name) THEN w
     ELSE save_device_data(remove_command(w, device_ID, cmd_name),
                           device_ID, schedule_property, cmd_dict)

\* Scheduler.add: update_command saves cmd_dict, and add saves it again.
add(w, device_ID, command, repeat_hours) ==
  IF ~validate_command(command) THEN w
  ELSE LET template == commands[command]
           repeat == IF repeat_hours >= 0 THEN repeat_hours
                     ELSE template.default_repeat_hours
           utc_in_repeat_hours == plus_hours(w.clock, repeat)
           cmd_dict == [command |-> command,
                        message |-> template.message,
                        run_at  |-> strftime(utc_in_repeat_hours),
                        repeat  |-> repeat,
                        count   |-> 0,
                        URL     |-> template.URL]
           w1 == update_command([w EXCEPT !.clock = Tick(@)], device_ID, cmd_dict)
       IN save_device_data(w1, device_ID, schedule_property, cmd_dict)

\* A create_notification that takes the message and the URL of any command
\* name: the defaults of commands.get(command, {}) when the name is unknown.
create_notification_unchecked(w, device_ID, command, notification_ID) ==
  IF ~validate_command(command)
  THEN NotificationData_add(w, device_ID, "", type_Done, None, notification_ID)
  ELSE NotificationData_add(w, device_ID, commands[command].message, type_Done,
                            commands[command].URL, notification_ID)

create_notification(w, device_ID, command, notification_ID) ==
  IF ~validate_command(command) THEN w
  ELSE NotificationData_add(w, device_ID, commands[command].message, type_Done,
                            commands[command].URL, notification_ID)

\* __execute without the take_measurements case: every command is re-armed
\* with its stored repeat.
execute_stored_repeat(w, device_ID, now, cmd, notification_ID) ==
  LET w1 == NotificationData_add(w, device_ID, cmd.message, type_Done, cmd.URL,
                                 notification_ID)
  IN IF cmd.repeat = 0
     THEN remove_command(w1, device_ID, cmd.command)
     ELSE update_command(w1, device_ID,
            [cmd EXCEPT !.count = @ + 1,
                        !.run_at = strftime(plus_hours(now, cmd.repeat))])

\* Scheduler.__execute
execute(w, device_ID, now, cmd, notification_ID) ==
  LET w1 == NotificationData_add(w, device_ID, cmd.message, type_Done, cmd.URL,
                                 notification_ID)
      default_repeat == IF cmd.command = take_measurements_command
                        THEN commands[cmd.command].default_repeat_hours
                        ELSE cmd.repeat
  IN IF cmd.repeat = 0
     THEN remove_command(w1, device_ID, cmd.command)
     ELSE update_command(w1, device_ID,
            [cmd EXCEPT !.count = @ + 1,
                        !.run_at = strftime(plus_hours(now, default_repeat))])

\* The loop of Scheduler.check over the list read at its start; ids[i] is
\* the notification ID drawn if entry i fires.
RECURSIVE check_loop(_, _, _, _, _, _)
check_loop(w, device_ID, now, sched_list, i, ids) ==
  IF i > Len(sched_list) THEN w
  ELSE LET cmd == sched_list[i]
           w1 == IF strftime(now) >= cmd.run_at
                 THEN execute(w, device_ID, now, cmd, ids[i])
                 ELSE w
       IN check_loop(w1, device_ID, now, sched_list, i + 1, ids)

check(w, hours, device_ID, ids) ==
  LET now == plus_hours(w.clock, hours)
      w0 == [w EXCEPT !.clock = Tick(@)]
  IN check_loop(w0, device_ID, now, get_schedule(w0, device_ID), 1, ids)

\* ------------------------------------------------------------------ runs
runs_property == DS_runs_KEY

Runs_get_all(w, device_ID) == get_device_data(w, runs_property, device_ID, None)

\* Runs.start: appends {start: now, end: None, recipe_name}.
Runs_start(w, device_ID, recipe_name) ==
  LET run == [start |-> Some(strftime(w.clock)), end |-> None,
              recipe_name |-> recipe_name]
  IN save_device_data([w EXCEPT !.clock = Tick(@)], device_ID, runs_property, run)

\* A stop that appends the ended run instead of putting the entity back.
Runs_stop_appends(w, device_ID) ==
  LET entities == get_sharded_entities(w, DS_device_data_KIND, runs_property,
                                       device_ID, Some(1))
  IN IF Len(entities) = 0 THEN w
     ELSE save_device_data([w EXCEPT !.clock = Tick(@)], device_ID, runs_property,
                           [entities[1].data EXCEPT !.end = Some(strftime(w.clock))])

\* Runs.stop: sets end of the newest run entity and puts it back under its key.
Runs_stop(w, device_ID) ==
  LET entities == get_sharded_entities(w, DS_device_data_KIND, runs_property,
                                       device_ID, Some(1))
  IN IF Len(entities) = 0 THEN w
     ELSE LET e == entities[1]
              run == [e.data EXCEPT !.end = Some(strftime(w.clock))]
          IN DS_put([w EXCEPT !.clock = Tick(@)],
                    get_device_data_kind(runs_property, device_ID),
                    [e EXCEPT !.data = run])

\* ------------------------------------------------------- calls, step by step
\* A call in progress.  Each of its steps is one round trip to the datastore
\* with the computation that follows it; between two steps of a call the
\* steps of the other callers may run.  The record holds the call (op,
\* device, command), the place it has reached (pc), its local variables
\* (cmd: the dict it will save; now; queue: the due entries check has yet to
\* execute; found: the entity it has read, as Some(entity) or None; mode:
\* whether it is inside remove_command or update_command), and what it has
\* seen and done: began and ended (the number of calls begun when it was
\* called and when it returned), pre and post (the datastore then), seen (the
\* keys of the shard when it read it), saved (the keys of the schedule or run
\* entities it has put), due (the entries check read as due) and emitted
\* (the keys of the notifications it has saved).
Invocation(op, device_ID, command, cmd, began, pre) ==
  [pc |-> "read", op |-> op, device |-> device_ID, command |-> command, cmd |-> cmd,
   mode |-> "update", now |-> [s |-> 0, us |-> 0], queue |-> <<>>, found |-> None,
   began |-> began, ended |-> began, pre |-> pre, post |-> pre,
   seen |-> {}, saved |-> {}, due |-> <<>>, emitted |-> {}]

\* The cmd_dict Scheduler.add builds at wall-clock time now.
new_cmd_dict(now, command, repeat_hours) ==
  LET template == commands[command]
      repeat == IF repeat_hours >= 0 THEN repeat_hours
                ELSE template.default_repeat_hours
  IN [command |-> command, message |-> template.message,
      run_at |-> strftime(plus_hours(now, repeat)), repeat |-> repeat,
      count |-> 0, URL |-> template.URL]

\* The keys of the entities of a shard.
shard_keys(w, property_name, device_ID) ==
  {e.key : e \in w.ds[get_device_data_kind(property_name, device_ID)]}

\* A delete that takes every entity of the command of the entity it was given.
delete_entity_by_command(w, device_ID, entity) ==
  [w EXCEPT !.ds[get_device_data_kind(schedule_property, device_ID)] =
     {x \in @ : x.data.command # entity.data.command}]

\* remove_command's DS.delete(key=entity.key), of the entity it has read.
delete_entity(w, device_ID, entity) ==
  DS_delete(w, get_device_data_kind(schedule_property, device_ID), entity.key)

\* A put that ends the run that is the newest when the put is made.
stop_put_newest(w, device_ID, e) ==
  LET entities == get_sharded_entities(w, DS_device_data_KIND, runs_property,
                                       device_ID, Some(1))
      newest == IF Len(entities) = 0 THEN e ELSE entities[1]
  IN DS_put([w EXCEPT !.clock = Tick(@)],
            get_device_data_kind(runs_property, device_ID),
            [newest EXCEPT !.data.end = Some(strftime(w.clock))])

\* Runs.stop after its read: sets end of the entity it has read and puts the
\* entity back under its key.
stop_put(w, device_ID, e) ==
  DS_put([w EXCEPT !.clock = Tick(@)],
         get_device_data_kind(runs_property, device_ID),
         [e EXCEPT !.data.end = Some(strftime(w.clock))])

\* check's loop moves to its next due entry, or check returns.
next_entry(inv) ==
  LET rest == Tail(inv.queue)
  IN [inv EXCEPT !.queue = rest, !.pc = IF rest = <<>> THEN "done" ELSE "notify"]

\* One step of the call inv in world w: the world and the call after it.
\*   read    get_command_entity, inside remove_command
\*   delete  DS.delete of the entity read, when one was found
\*   save    save_device_data of update_command; save_again is add's own
\*   notify  __execute of the first entry of the queue, up to nd.add
\*   put     DS.put of Runs.stop
step(w, inv, notification_ID) ==
  CASE inv.pc = "read" ->
         LET entity == get_command_entity(w, inv.device, inv.command)
             read == [inv EXCEPT !.found = entity,
                                 !.seen = shard_keys(w, schedule_property, inv.device)]
         IN [world |-> w,
             inv |-> IF entity # None THEN [read EXCEPT !.pc = "delete"]
                     ELSE IF inv.mode = "remove" THEN next_entry(read)
                     ELSE [read EXCEPT !.pc = "save"]]
    [] inv.pc = "delete" ->
         [world |-> delete_entity(w, inv.device, inv.found[1]),
          inv |-> IF inv.mode = "remove" THEN next_entry(inv)
                  ELSE [inv EXCEPT !.pc = "save"]]
    [] inv.pc \in {"save", "save_again"} ->
         LET put == [inv EXCEPT !.saved = @ \cup {isoformat(w.clock)}]
         IN [world |-> save_device_data(w, inv.device, schedule_property, inv.cmd),
             inv |-> IF inv.op = "add" /\ inv.pc = "save"
                     THEN [put EXCEPT !.pc = "save_again"]
                     ELSE IF inv.op = "check" THEN next_entry(put)
                     ELSE [put EXCEPT !.pc = "done"]]
    [] inv.pc = "notify" ->
         LET cmd == Head(inv.queue)
             default_repeat == IF cmd.command = take_measurements_command
                               THEN commands[cmd.command].default_repeat_hours
                               ELSE cmd.repeat
         IN [world |-> NotificationData_add(w, inv.device, cmd.message, type_Done,
                                            cmd.URL, notification_ID),
             inv |-> [inv EXCEPT
                        !.emitted = @ \cup {isoformat(Tick(w.clock))},
                        !.command = cmd.command,
                        !.mode = IF cmd.repeat = 0 THEN "remove" ELSE "update",
                        !.cmd = IF cmd.repeat = 0 THEN cmd
                                ELSE [cmd EXCEPT
                                        !.count = @ + 1,
                                        !.run_at = strftime(plus_hours(inv.now, default_repeat))],
                        !.pc = "read"]]
    [] inv.pc = "put" ->
         [world |-> stop_put(w, inv.device, inv.found[1]),
          inv |-> [inv EXCEPT !.now = w.clock, !.saved = {inv.found[1].key},
                              !.pc = "done"]]

\* ------------------------------------------------------------ return values
\* What a call hands back to its caller: a Python value tagged with its type,
\* or the exception the call let through.
PyNone == [py |-> "NoneType", val |-> <<>>]
PyStr(str) == [py |-> "str", val |-> str]
PyList(list) == [py |-> "list", val |-> list]
PyDict(dict) == [py |-> "dict", val |-> dict]
Raised(exception) == [py |-> "raise", val |-> exception]

\* ------------------------------------------------ datastore: user sessions
\* The greatest of a non-empty set of '%FT%XZ' strings: dates[0] after
\* dates.sort(reverse=True).
newest_date(dates) == CHOOSE m \in dates : \A n \in dates : n <= m

RECURSIVE delete_all(_, _, _)
delete_all(w, kind, keys) ==
  IF keys = {} THEN w
  ELSE LET k == CHOOSE k \in keys : TRUE
       IN delete_all(DS_delete(w, kind, k), kind, keys \ {k})

\* A read of the latest session date that deletes no session.
get_latest_user_session_created_date_only(w, user_uuid) ==
  LET sessions == get_all_from_DS(w, DS_user_session_KIND, "user_uuid", user_uuid)
  IN IF sessions = {} THEN [world |-> w, ret |-> PyNone]
     ELSE [world |-> w,
           ret |-> PyStr(newest_date({strftime(x.props.created_date) : x \in sessions}))]

\* get_latest_user_session_created_date_from_DS: the world it leaves and
\* the value it returns.  It deletes every session of the user whose
\* created_date does not format to the latest date string.
get_latest_user_session_created_date_from_DS(w, user_uuid) ==
  LET sessions == get_all_from_DS(w, DS_user_session_KIND, "user_uuid", user_uuid)
  IN IF sessions = {} THEN [world |-> w, ret |-> PyNone]
     ELSE LET latest == newest_date({strftime(x.props.created_date) : x \in sessions})
              stale == {x.key : x \in {y \in sessions :
                                          strftime(y.props.created_date) # latest}}
          IN [world |-> delete_all(w, DS_user_session_KIND, stale),
              ret |-> PyStr(latest)]

\* ----------------------------------------------------------------------- iot
\* The Firestore collection of the public keys the devices upload, and the
\* IoT device registry env_vars.device_registry names.
devicePublicKeys == "devicePublicKeys"
device_registry == "device_registry"

\* "{}-{}-{}".format(device_type, verification_code, MAC)
device_id_of(device_type, verification_code, MAC) ==
  device_type \o "-" \o verification_code \o "-" \o MAC

\* keys_ref.where("cksum", "==", verification_code).get(): the documents
\* that have the field with this value, in the order of their IDs, which
\* are numbers here.
RECURSIVE by_id(_)
by_id(docs) ==
  IF docs = {} THEN <<>>
  ELSE LET first == CHOOSE d \in docs : \A e \in docs : d.id <= e.id
       IN <<first>> \o by_id(docs \ {first})

where_cksum(w, verification_code) ==
  by_id({d \in w.ds[devicePublicKeys] :
           "cksum" \in DOMAIN d.fields /\ d.fields["cksum"] = verification_code})

\* devices.create(parent=registry_name, body=device_template).execute():
\* the registry with the device, or HttpError when the service refuses
\* (refused) or a device of this ID is registered already.
devices_create(w, device_template, refused) ==
  IF refused \/ \E dev \in w.ds[device_registry] : dev.id = device_template.id
  THEN [world |-> w, ret |-> Raised("HttpError")]
  ELSE [world |-> [w EXCEPT !.ds[device_registry] = @ \cup {device_template}],
        ret |-> PyNone]

\* doc.reference.update({"state": "verified"})
doc_update_verified(w, doc_id) ==
  [w EXCEPT !.ds[devicePublicKeys] =
     {IF d.id = doc_id
      THEN [d EXCEPT !.fields = [n \in DOMAIN d.fields \cup {"state"} |->
                                    IF n = "state" THEN "verified" ELSE d.fields[n]]]
      ELSE d : d \in @}]

\* A registration that marks the key verified before it creates the device.
create_iot_device_registry_entry_verify_first(w, verification_code, device_name, device_notes, device_type, user_uuid, refused) ==
  LET docs == where_cksum(w, verification_code)
  IN IF docs = <<>> THEN [world |-> w, ret |-> Raised("ValueError")]
     ELSE LET key_dict == docs[1].fields
          IN IF ~({"key", "cksum", "state", "MAC"} \subseteq DOMAIN key_dict)
             THEN [world |-> w, ret |-> Raised("ValueError")]
             ELSE LET device_id == device_id_of(device_type, verification_code, key_dict["MAC"])
                      device_template ==
                        [id |-> device_id, publicKey |-> key_dict["key"],
                         metadata |-> [user_uuid |-> user_uuid, device_name |-> device_name,
                                       device_notes |-> device_notes]]
                      created == devices_create(doc_update_verified(w, docs[1].id),
                                                device_template, refused)
                  IN IF created.ret.py = "raise" THEN created
                     ELSE [world |-> created.world,
                           ret |-> [py |-> "tuple",
                                    val |-> <<device_id, IF "version" \in DOMAIN key_dict THEN Some(key_dict["version"]) ELSE None>>]]

\* create_iot_device_registry_entry: the world it leaves, and the
\* (device_id, version) it returns or the exception it raises.
create_iot_device_registry_entry(w, verification_code, device_name, device_notes, device_type, user_uuid, refused) ==
  LET docs == where_cksum(w, verification_code)
  IN IF docs = <<>> THEN [world |-> w, ret |-> Raised("ValueError")]
     ELSE LET key_dict == docs[1].fields
          IN IF ~({"key", "cksum", "state", "MAC"} \subseteq DOMAIN key_dict)
             THEN [world |-> w, ret |-> Raised("ValueError")]
             ELSE LET device_id == device_id_of(device_type, verification_code, key_dict["MAC"])
                      device_template ==
                        [id |-> device_id, publicKey |-> key_dict["key"],
                         metadata |-> [user_uuid |-> user_uuid, device_name |-> device_name,
                                       device_notes |-> device_notes]]
                      created == devices_create(w, device_template, refused)
                  IN IF created.ret.py = "raise" THEN created
                     ELSE [world |-> doc_update_verified(created.world, docs[1].id),
                           ret |-> [py |-> "tuple",
                                    val |-> <<device_id, IF "version" \in DOMAIN key_dict THEN Some(key_dict["version"]) ELSE None>>]]

\* -------------------------------------------------------------- database
\* utils.bytes_to_string of a value that is a str already.
bytes_to_string(v) == v

\* "{0:.2f}".format(float(v)) of the values the stores hold.
format_2f(v) ==
  CASE v = "512.345" -> "512.35"
    [] v = "21" -> "21.00"
    [] OTHER -> v

\* DS.get of a custom keyed entity, as Some(entity) or None.  An entity with
\* no property is falsy, and comes back as None.
get_by_key_from_DS(w, kind, key) ==
  LET hits == {e \in w.ds[kind] : e.key = key}
  IN IF hits = {} THEN None
     ELSE LET ent == CHOOSE e \in hits : TRUE
          IN IF DOMAIN ent.props = {} THEN None ELSE Some(ent)

\* device_uuid is None or device_uuid is 'None'.  The second test compares
\* identities: it holds for a string equal to 'None' only when the
\* interpreter made it the same object as the literal (same_object).
no_device(device_uuid, same_object) ==
  \/ device_uuid = None
  \/ (device_uuid = Some("None") /\ same_object)

\* A history that takes the entity for a device with no data.
get_co2_history_unguarded(w, device_uuid, same_object) ==
  IF no_device(device_uuid, same_object) THEN PyList(<<>>)
  ELSE LET device_data == get_by_key_from_DS(w, DS_device_data_KIND, device_uuid[1])
       IN IF device_data = None THEN Raised("TypeError")
          ELSE IF DS_co2_KEY \notin DOMAIN device_data[1].props THEN PyList(<<>>)
          ELSE LET valuesList == device_data[1].props[DS_co2_KEY]
               IN PyList([k \in 1..Len(valuesList) |->
                            [value |-> bytes_to_string(valuesList[k].value),
                             time |-> bytes_to_string(valuesList[k].timestamp)]])

get_co2_history(w, device_uuid, same_object) ==
  IF no_device(device_uuid, same_object) THEN PyList(<<>>)
  ELSE LET device_data == get_by_key_from_DS(w, DS_device_data_KIND, device_uuid[1])
       IN IF device_data = None \/ DS_co2_KEY \notin DOMAIN device_data[1].props
          THEN PyList(<<>>)
          ELSE LET valuesList == device_data[1].props[DS_co2_KEY]
               IN PyList([k \in 1..Len(valuesList) |->
                            [value |-> bytes_to_string(valuesList[k].value),
                             time |-> bytes_to_string(valuesList[k].timestamp)]])

\* DS_led_KEY is not a name of database.py: once device_data is not None
\* the test that reads it raises NameError.
get_led_panel_history(w, device_uuid, same_object) ==
  IF no_device(device_uuid, same_object) THEN PyList(<<>>)
  ELSE LET device_data == get_by_key_from_DS(w, DS_device_data_KIND, device_uuid[1])
       IN IF device_data = None THEN PyList(<<>>)
          ELSE Raised("NameError")

\* The list of {value, time} of one key of a device's entity.
history_of(device_data, key) ==
  IF key \in DOMAIN device_data.props
  THEN LET valuesList == device_data.props[key]
       IN [k \in 1..Len(valuesList) |->
             [value |-> bytes_to_string(valuesList[k].value),
              time |-> bytes_to_string(valuesList[k].timestamp)]]
  ELSE <<>>

get_temp_and_humidity_history(w, device_uuid, same_object) ==
  LET result_json == [RH |-> <<>>, temp |-> <<>>]
  IN IF no_device(device_uuid, same_object) THEN PyDict(result_json)
     ELSE LET device_data == get_by_key_from_DS(w, DS_device_data_KIND, device_uuid[1])
          IN IF device_data = None THEN PyDict(result_json)
             ELSE PyDict([RH |-> history_of(device_data[1], DS_rh_KEY),
                          temp |-> history_of(device_data[1], DS_temp_KEY)])

get_current_float_value_from_DS(w, key, device_uuid, same_object) ==
  IF no_device(device_uuid, same_object) THEN PyNone
  ELSE LET device_data == get_by_key_from_DS(w, DS_device_data_KIND, device_uuid[1])
       IN IF device_data = None \/ key \notin DOMAIN device_data[1].props THEN PyNone
          ELSE LET valuesList == device_data[1].props[key]
               IN IF Len(valuesList) = 0 THEN Raised("IndexError")
                  ELSE PyStr(format_2f(valuesList[1].value))

\* ------------------------------------------------- recent device properties
\* dict.get(field, '')
dict_get(pydict, field) == IF field \in DOMAIN pydict THEN pydict[field] ELSE ""

\* __add_latest_property_to_dict and __add_boot_time_to_dict: the field of
\* the newest row of the key's shard.  0 <= len(var) holds for the empty list
\* too, and var[0] of the empty list raises IndexError.
add_latest_property_to_dict(w, device_uuid, key, field) ==
  LET var == get_device_data(w, key, device_uuid, Some(1))
  IN IF Len(var) = 0 THEN Raised("IndexError")
     ELSE PyStr(dict_get(var[1], field))

\* The keys get_all_recent_device_data_properties reads, in its order.
RecentKeys ==
  <<DS_boot_KEY, DS_status_KEY, DS_co2_KEY, DS_rh_KEY, DS_temp_KEY, DS_led_KEY,
    DS_led_dist_KEY, DS_led_intensity_KEY, DS_h20_ec_KEY, DS_h20_ph_KEY,
    DS_h20_temp_KEY>>

get_all_recent_device_data_properties(w, device_uuid) ==
  LET boot_time == add_latest_property_to_dict(w, device_uuid, DS_boot_KEY, "timestamp")
      latest == [k \in 1..Len(RecentKeys) |->
                   add_latest_property_to_dict(w, device_uuid, RecentKeys[k], "value")]
  IN IF boot_time.py = "raise" THEN boot_time
     ELSE IF \E k \in 1..Len(latest) : latest[k].py = "raise"
          THEN latest[CHOOSE k \in 1..Len(latest) : latest[k].py = "raise"]
     ELSE PyDict([key \in {"boot_time"} \cup {RecentKeys[k] : k \in 1..Len(RecentKeys)} |->
                    IF key = "boot_time" THEN boot_time.val
                    ELSE latest[CHOOSE k \in 1..Len(RecentKeys) : RecentKeys[k] = key].val])

\* --------------------------------------------------------------- recipe_data
\* env_vars: the kind and the key of the recipe configuration entity, and
\* the kind of the weather entities.
ds_recipe_entity == "Recipe"
ds_recipe_config == "config"
ds_weather_entity == "Weather"

\* json.dumps and json.loads: a document is not the value it encodes.
json_dumps(value) == [json |-> value]
json_loads(document) == document.json

\* Creates the entity when there is none, sets its property named key.
save_with_key(w, kind, key, data) ==
  LET hits == {e \in w.ds[kind] : e.key = key}
      props == IF hits = {} THEN <<>> ELSE (CHOOSE e \in hits : TRUE).props
      dd == [key |-> key,
             props |-> [n \in DOMAIN props \cup {key} |->
                          IF n = key THEN data ELSE props[n]]]
  IN [w EXCEPT !.ds[kind] = {x \in @ : x.key # key} \cup {dd}]

\* RecipeData.read_config: entity[self.__key] of None raises TypeError.
read_config(w) ==
  LET entity == get_by_key_from_DS(w, ds_recipe_entity, ds_recipe_config)
  IN IF entity = None THEN Raised("TypeError")
     ELSE PyDict(json_loads(bytes_to_string(entity[1].props[ds_recipe_config])))

\* RecipeData.write_config, the datastore part: the config with its
\* timestamp, as JSON.
write_config(w, config) ==
  LET now == strftime(w.clock)
      stamped == [n \in DOMAIN config \cup {"timestamp"} |->
                    IF n = "timestamp" THEN now ELSE config[n]]
  IN save_with_key([w EXCEPT !.clock = Tick(@)], ds_recipe_entity,
                   ds_recipe_config, json_dumps(stamped))

\* -------------------------------------------------------------- weather_data
\* A date string 'YYYY-MM-DD' is [day, padded]: the day it names, and whether
\* it is written with zero padded month and day.
\* dt.strptime(date, '%Y-%m-%d') reads both spellings.
strptime(date) == date.day

\* str(d.date()): the padded spelling.
date_str(day) == [day |-> day, padded |-> TRUE]

\* A timestamp is [date, tod]; ts[0:10] is its date string.
first_10(ts) == ts.date

\* list.remove(d): removes the first item equal to d.
list_remove(list, d) ==
  LET j == CHOOSE j \in 1..Len(list) :
             list[j] = d /\ \A k \in 1..(j - 1) : list[k] # d
  IN [k \in 1..(Len(list) - 1) |-> IF k < j THEN list[k] ELSE list[k + 1]]

\* The loop that removes duplicate timestamps: a for over the list that
\* removes from the list it walks.  i is the place the iterator reads next.
RECURSIVE remove_duplicates(_, _, _)
remove_duplicates(list, i, previous_ts) ==
  IF i > Len(list) THEN list
  ELSE IF Some(list[i].time) = previous_ts
       THEN remove_duplicates(list_remove(list, list[i]), i + 1, previous_ts)
       ELSE remove_duplicates(list, i + 1, Some(list[i].time))

\* The decoded items of all_data_list whose date is in dates, in order.
RECURSIVE filter_dates(_, _)
filter_dates(all_data_list, dates) ==
  IF all_data_list = <<>> THEN <<>>
  ELSE LET d == json_loads(Head(all_data_list))
       IN (IF first_10(d.time) \in dates THEN <<d>> ELSE <<>>)
            \o filter_dates(Tail(all_data_list), dates)

\* A query that leaves the end date out of the range.
get_computed_weather_data_exclusive(w, start_date, end_date, arable_device_name) ==
  LET entity == get_by_key_from_DS(w, ds_weather_entity, arable_device_name)
  IN IF entity = None THEN Raised("TypeError")
     ELSE IF "computed" \notin DOMAIN entity[1].props THEN Raised("KeyError")
     ELSE LET all_data_list == entity[1].props["computed"]
              dates == {date_str(day) : day \in strptime(start_date)..(strptime(end_date) - 1)}
          IN PyList(remove_duplicates(filter_dates(all_data_list, dates), 1, None))

\* WeatherData.get_computed_weather_data: entity['computed'] of None raises
\* TypeError.
get_computed_weather_data(w, start_date, end_date, arable_device_name) ==
  LET entity == get_by_key_from_DS(w, ds_weather_entity, arable_device_name)
  IN IF entity = None THEN Raised("TypeError")
     ELSE IF "computed" \notin DOMAIN entity[1].props THEN Raised("KeyError")
     ELSE LET all_data_list == entity[1].props["computed"]
              dates == {date_str(day) : day \in strptime(start_date)..strptime(end_date)}
          IN PyList(remove_duplicates(filter_dates(all_data_list, dates), 1, None))

\* ------------------------------------------------------ local_mqtt_messaging
messageType_KEY == "messageType"
messageType_EnvVar == "EnvVar"
messageType_CommandReply == "CommandReply"
messageType_Image == "Image"
messageType_ImageUpload == "ImageUpload"
messageType_RecipeEvent == "RecipeEvent"
var_KEY == "var"
values_KEY == "values"
varName_KEY == "varName"
imageType_KEY == "imageType"
fileName_KEY == "fileName"
recipeAction_KEY == "action"
recipeName_KEY == "name"

\* The database MQTTMessaging.__init__ switches to.
influxdb_name == "openag_local"

\* utils.key_in_dict
key_in_dict(pydict, key) == key \in DOMAIN pydict

\* The values strings devices publish.  WellFormed is a Python literal;
\* Embedded holds a quoted dict inside a quoted string, which is not one, and
\* its inner dict is a literal; in Malformed the inner dict is not a literal
\* either; Opaque has none of the tags the scan looks for.  EmbeddedBand and
\* MalformedBand are what re.sub makes of the two: the inner quotes become
\* double quotes, and the whole string is a literal again.
WellFormed == "{'values':[{'name':'SHT25-Top','type':'float','value':21.0}]}"
Embedded == "{'values':[{'name':'LEDPanel-Top','type':'str','value':'{'400-449': 0.0}'}]}"
EmbeddedBand == "{'values':[{'name':'LEDPanel-Top','type':'str','value':'{\"band_400-449\": 0.0}'}]}"
Malformed == "{'values':[{'name':'LEDPanel-Top','type':'str','value':'{'400-449': off}'}]}"
MalformedBand == "{'values':[{'name':'LEDPanel-Top','type':'str','value':'{\"band_400-449\": off}'}]}"
Opaque == "21.0"

\* re.sub("\\'(\d+-\d+)\\'", "\"band_\\1\"", values_string)
re_sub_band(values_string) ==
  CASE values_string = Embedded -> EmbeddedBand
    [] values_string = Malformed -> MalformedBand
    [] OTHER -> values_string

\* __string_to_value: the literal's first value; when the string is not a
\* literal, the literal between 'value':' and }]}, whose exceptions flow up;
\* the string itself when a tag is missing.
string_to_value(string) ==
  CASE string = WellFormed -> PyStr("21.0")
    [] string = Embedded -> PyDict([n \in {"400-449"} |-> "0.0"])
    [] string = EmbeddedBand -> PyStr("{\"band_400-449\": 0.0}")
    [] string = MalformedBand -> PyStr("{\"band_400-449\": off}")
    [] string = Malformed -> Raised("ValueError")
    [] OTHER -> PyStr(string)

\* __string_to_name: the literal's first name, else what follows 'name':',
\* else None.  It raises nothing.
string_to_name(string) ==
  CASE string = WellFormed -> Some("SHT25-Top")
    [] string \in {Embedded, EmbeddedBand, Malformed, MalformedBand} -> Some("LEDPanel-Top")
    [] OTHER -> None

\* str(name)
str(name) == IF name = None THEN "None" ELSE name[1]

\* The file name the brain gives an uploaded image.
StructuredFileName == "EDU-6B1261EF-b8-27-eb-7f-f2-73_2020-06-05_T19-42-52Z_Camera-Top.png"

\* file_name.split("_")
split_file_name(file_name) ==
  IF file_name = StructuredFileName
  THEN <<"EDU-6B1261EF-b8-27-eb-7f-f2-73", "2020-06-05", "T19-42-52Z", "Camera-Top.png">>
  ELSE <<file_name>>

\* sensorName.split(".")[0]
before_dot(sensorName) == IF sensorName = "Camera-Top.png" THEN "Camera-Top" ELSE sensorName

\* "{}{}".format(imageDate, imageTime.replace("-", ":"))
image_time(imageDate, imageTime) ==
  IF imageDate = "2020-06-05" /\ imageTime = "T19-42-52Z"
  THEN "2020-06-05T19:42:52Z" ELSE imageDate \o imageTime

\* self.influx.write_points(points)
write_points(w, points) == [w EXCEPT !.ds[influxdb_name] = @ \o points]

\* The messageType of the message when it is one of the five, else None.
get_message_type(message) ==
  IF ~key_in_dict(message, messageType_KEY) THEN None
  ELSE IF message[messageType_KEY] \in
            {messageType_EnvVar, messageType_CommandReply, messageType_Image,
             messageType_ImageUpload, messageType_RecipeEvent}
       THEN Some(message[messageType_KEY])
       ELSE None

\* Each test of the mandatory keys is not (k1 or k2 ...): it fails only when
\* every key of the type is missing.
validate_message(message) ==
  IF ~key_in_dict(message, messageType_KEY) THEN FALSE
  ELSE LET message_type == get_message_type(message)
       IN IF message_type = None THEN FALSE
          ELSE IF /\ message_type[1] \in {messageType_EnvVar, messageType_CommandReply}
                  /\ ~(key_in_dict(message, var_KEY) \/ key_in_dict(message, values_KEY))
               THEN FALSE
          ELSE IF /\ message_type[1] \in {messageType_Image, messageType_ImageUpload}
                  /\ ~(\/ key_in_dict(message, varName_KEY)
                        \/ key_in_dict(message, imageType_KEY)
                        \/ key_in_dict(message, fileName_KEY))
               THEN FALSE
          ELSE IF /\ message_type[1] = messageType_RecipeEvent
                  /\ ~(key_in_dict(message, recipeAction_KEY) \/ key_in_dict(message, recipeName_KEY))
               THEN FALSE
          ELSE TRUE

\* A save that files every point under 'env_vars'.
save_data_to_Device_env_vars(w, pydict, deviceId) ==
  LET message_type == get_message_type(pydict)
  IN IF message_type \notin {Some(messageType_EnvVar), Some(messageType_CommandReply)}
     THEN w
     ELSE IF ~key_in_dict(pydict, var_KEY) \/ ~key_in_dict(pydict, values_KEY) THEN w
     ELSE LET varName == pydict[var_KEY]
              value == string_to_value(pydict[values_KEY])
          IN IF value.py = "raise" THEN w
             ELSE write_points([w EXCEPT !.clock = Tick(@)],
                    <<[measurement |-> "env_vars", time |-> strftime(w.clock),
                       tags |-> [device_id |-> deviceId,
                                 sensor |-> str(string_to_name(pydict[values_KEY])),
                                 isSpectrum |-> FALSE],
                       fields |-> [n \in {varName} |-> value]]>>)

\* save_data_to_Device: one point for an EnvVar or CommandReply that has var
\* and values; an exception of the value scan is caught, and nothing written.
save_data_to_Device(w, pydict, deviceId) ==
  LET message_type == get_message_type(pydict)
  IN IF message_type \notin {Some(messageType_EnvVar), Some(messageType_CommandReply)}
     THEN w
     ELSE IF ~key_in_dict(pydict, var_KEY) \/ ~key_in_dict(pydict, values_KEY) THEN w
     ELSE LET varName == pydict[var_KEY]
              name == string_to_name(pydict[values_KEY])
              isSpectrum == varName = DS_led_KEY
              values_string == IF isSpectrum THEN re_sub_band(pydict[values_KEY])
                               ELSE pydict[values_KEY]
              value == string_to_value(values_string)
              measurement_type == IF message_type[1] = messageType_CommandReply
                                  THEN varName ELSE "env_vars"
          IN IF value.py = "raise" THEN w
             ELSE write_points([w EXCEPT !.clock = Tick(@)],
                    <<[measurement |-> measurement_type, time |-> strftime(w.clock),
                       tags |-> [device_id |-> deviceId, sensor |-> str(name),
                                 isSpectrum |-> isSpectrum],
                       fields |-> [n \in {varName} |-> value]]>>)

\* save_uploaded_image: one point for an ImageUpload that has varName and a
\* fileName of four parts; the ValueError of any other fileName is caught.
save_uploaded_image(w, pydict, deviceId) ==
  IF get_message_type(pydict) # Some(messageType_ImageUpload) THEN w
  ELSE IF ~key_in_dict(pydict, varName_KEY) \/ ~key_in_dict(pydict, fileName_KEY) THEN w
  ELSE LET file_name == pydict[fileName_KEY]
           parts == split_file_name(file_name)
       IN IF Len(parts) # 4 THEN w
          ELSE write_points(w,
                 <<[measurement |-> "images", time |-> image_time(parts[2], parts[3]),
                    tags |-> [device_id |-> deviceId, sensor |-> before_dot(parts[4])],
                    fields |-> [filename |-> file_name]]>>)

\* MQTTMessaging.parse
parse(w, device_ID, message) ==
  IF ~validate_message(message) THEN w
  ELSE IF get_message_type(message) = Some(messageType_ImageUpload)
       THEN save_uploaded_image(w, message, device_ID)
       ELSE save_data_to_Device(w, message, device_ID)

\* ---------------------------------------------------------------- inputs
\* The command table's names and one name that is not in it.
CommandInputs == DOMAIN commands \cup {"water_plant"}

\* repeat_hours: the default (-1), a one-shot and an explicit interval.
RepeatInputs == {-1, 0, 1}

\* What utils.id_generator() may return.
IDs == {"id1", "id2"}

\* No scheduler call reads the ID of a notification: the scheduler's
\* specifications draw the IDs of the notifications of fired entries from here.
FiredIDs == {"id1"}

\* Arguments of get_sharded_kind: two kinds, two property names and two
\* device keys.
KindInputs == {DS_device_data_KIND, DS_images_KIND}
PropertyInputs == {DS_temp_KEY, "air_temperature"}
DeviceInputs == {"d1", "celsius_d1"}

\* The device_uuid argument of the accessors of database.py: None, the
\* string 'None', a device with an entity and a device with none.
DeviceArgs == {None, Some("None"), Some("d1"), Some("d2")}

\* The keys of the entity of a device, and what each of them holds: a list
\* of readings, newest first.
LegacyKeys == {DS_co2_KEY, DS_rh_KEY, DS_temp_KEY}
ValuesList ==
  <<[timestamp |-> "2024-01-01T00:00:00Z", value |-> "512.345"],
    [timestamp |-> "2023-12-31T00:00:00Z", value |-> "21"]>>

\* The stores of DeviceData entities: none, or the entity of d1 with some
\* of the keys.
DeviceDataStores ==
  {{}} \cup {{[key |-> "d1", props |-> [k \in K |-> ValuesList]]} : K \in SUBSET LegacyKeys}

\* The shards get_all_recent_device_data_properties reads.
RecentKinds ==
  {get_device_data_kind(RecentKeys[k], d) : k \in 1..Len(RecentKeys), d \in Devices}

\* A row of a sensor shard, saved an hour before the first call.
SensorRow(pydict) ==
  [key |-> <<0 - SecPerHour, 0>>, data |-> pydict, timestamp |-> <<0 - SecPerHour, 0>>]

\* Arguments of write_config.
Configs == {[devices_to_control |-> <<"d1">>]}

\* Arable device names: one with a weather entity, one without.
ArableNames == {"arable1", "arable2"}

\* A computed weather reading of a day, at a time of that day.
Computed(day, tod) == [time |-> [date |-> date_str(day), tod |-> tod]]

\* The date strings of a call, in both spellings.
DateInputs == {[day |-> day, padded |-> p] : day \in 2..3, p \in BOOLEAN}

\* The readings a cached list is made of: one of the day before the dates of
\* the calls, one of the day after, and two of the same day.
CachedReadings == {Computed(1, 0), Computed(2, 0), Computed(2, 1), Computed(3, 0), Computed(4, 0)}

\* The cached lists: the JSON of up to MaxCached readings, in any order and
\* with repeats.
CachedLists ==
  UNION {[1..n -> {json_dumps(r) : r \in CachedReadings}] : n \in 0..MaxCached}

\* v or nothing: an optional field of a message.
Opt(S) == {None} \cup {Some(v) : v \in S}

\* The dict with key k when v is Some value, the empty dict when v is None.
Field(k, v) == IF v = None THEN <<>> ELSE [n \in {k} |-> v[1]]

\* Inbound messages: every recognized type with every subset of its own
\* fields, a message with no messageType and one with an unknown one.
EnvMessages ==
  {Field(messageType_KEY, t) @@ Field(var_KEY, v) @@ Field(values_KEY, vs) :
     t \in Opt({messageType_EnvVar, messageType_CommandReply}),
     v \in Opt({DS_temp_KEY, DS_led_KEY, DS_status_KEY}),
     vs \in Opt({WellFormed, Embedded, Malformed, Opaque})}
ImageMessages ==
  {Field(messageType_KEY, Some(t)) @@ Field(varName_KEY, v) @@ Field(imageType_KEY, it)
     @@ Field(fileName_KEY, f) :
     t \in {messageType_Image, messageType_ImageUpload},
     v \in Opt({"Camera-Top"}), it \in Opt({"png"}),
     f \in Opt({StructuredFileName, "photo.png"})}
RecipeMessages ==
  {Field(messageType_KEY, Some(messageType_RecipeEvent)) @@ Field(recipeAction_KEY, a)
     @@ Field(recipeName_KEY, n) :
     a \in Opt({"start"}), n \in Opt({"Demo"})}
UnknownMessages ==
  {Field(messageType_KEY, Some("Telemetry")) @@ Field(var_KEY, Some(DS_temp_KEY))
     @@ Field(values_KEY, Some(WellFormed))}
Messages == EnvMessages \cup ImageMessages \cup RecipeMessages \cup UnknownMessages

\* The names users give their devices.
DeviceNames == {"Tent", "Desk"}

\* Users: two with sessions and one with none.
Users == {"u1", "u2", "u3"}

\* A stored session.
Session(key, user_uuid, s, us) ==
  [key |-> key, props |-> [user_uuid |-> user_uuid, created_date |-> [s |-> s, us |-> us]]]

\* The sessions a store may hold: three of u1, two of them created within
\* one second, and two of u2.
StoredSessions ==
  {Session(1, "u1", 0, 0), Session(2, "u1", SecPerHour, 0), Session(3, "u1", SecPerHour, 5),
   Session(4, "u2", 0, 0), Session(5, "u2", SecPerHour, 7)}

\* The documents a device's setup script may have uploaded: a complete one,
\* a second one with the same code, one with no MAC and one with no state.
UploadedKeys ==
  {[id |-> 1, fields |-> [key |-> "PEM1", cksum |-> "c1", state |-> "unverified",
                             MAC |-> "aa", version |-> "1.0"]],
   [id |-> 2, fields |-> [key |-> "PEM2", cksum |-> "c1", state |-> "unverified",
                             MAC |-> "bb"]],
   [id |-> 3, fields |-> [key |-> "PEM3", cksum |-> "c2", state |-> "unverified"]],
   [id |-> 4, fields |-> [key |-> "PEM4", cksum |-> "c3", MAC |-> "dd"]]}

\* The codes users type: the three uploaded ones and one nobody uploaded.
VerificationCodes == {"c1", "c2", "c3", "c9"}

\* The count argument of a read: all rows, or at most so many.
Counts == {None, Some(0), Some(1), Some(2), Some(4)}

\* The message of a notification added directly.
NotifMessage == "Hello"

RecipeNames == {"Demo", "Basil"}

\* The scheduler is exercised on one device; the runs ledger on all of them.
SchedulerDevices == {"d1"}

\* Hours the wall clock may jump between two calls.
AdvanceHours == {1, 48}

\* Arguments of set_testing_hours.
TestingHours == {0, 48}

\* ---------------------------------------------------------- state machine
World == [ds |-> ds, clock |-> clock]

Init ==
  /\ ds = [k \in Kinds |-> {}]
  /\ clock = [s |-> 0, us |-> 0]
  /\ testing_hours = 0
  /\ steps = 0
  /\ hist = <<>>
  /\ inflight = [p \in Callers |-> Idle]

\* A public call that returns world w.  hist records the call: its name and
\* arguments, the clock and the testing hours it started with, and the
\* datastore it started from.
Return(w, call) ==
  /\ steps < MaxOps
  /\ steps' = steps + 1
  /\ ds' = w.ds
  /\ clock' = w.clock
  /\ hist' = Append(hist, [op |-> call.op, device |-> call.device,
                           command |-> call.command,
                           repeat_hours |-> call.repeat_hours,
                           hours |-> testing_hours, now |-> clock, pre |-> ds])
  /\ UNCHANGED inflight

Call(op, device, command, repeat_hours) ==
  [op |-> op, device |-> device, command |-> command, repeat_hours |-> repeat_hours]

\* A public call of a function: hist records its name, its arguments and the
\* value it returned, with the clock and the datastore it started from.
Returns(w, op, args, ret) ==
  /\ steps < MaxOps
  /\ steps' = steps + 1
  /\ ds' = w.ds
  /\ clock' = w.clock
  /\ hist' = Append(hist, [op |-> op, args |-> args, ret |-> ret,
                           now |-> clock, pre |-> ds])
  /\ UNCHANGED inflight

Add(d, c, rh) ==
  /\ Return(add(World, d, c, rh), Call("add", d, c, rh))
  /\ UNCHANGED testing_hours

\* The places in the list check reads of the entries that are due at now.
DueIndexes(w, device_ID, now) ==
  LET sched_list == get_schedule(w, device_ID)
  IN {i \in 1..Len(sched_list) : strftime(now) >= sched_list[i].run_at}

\* One notification ID, out of idset, is drawn for every entry that fires.
Check(d, idset) ==
  /\ \E ids \in [DueIndexes(World, d, plus_hours(clock, testing_hours)) -> idset] :
        Return(check(World, testing_hours, d, ids), Call("check", d, "", 0))
  /\ UNCHANGED testing_hours

RemoveCommand(d, c) ==
  /\ Return(remove_command(World, d, c), Call("remove_command", d, c, 0))
  /\ UNCHANGED testing_hours

RemoveAllCommands(d) ==
  /\ Return(remove_all_commands(World, d), Call("remove_all_commands", d, "", 0))
  /\ UNCHANGED testing_hours

\* update_command with a caller-built dict: the command due in r hours.
UpdateCommand(d, c, r) ==
  /\ Return(update_command(World, d,
               [command |-> c, message |-> "", run_at |-> strftime(plus_hours(clock, r)),
                repeat |-> r, count |-> 0, URL |-> None]),
            Call("update_command", d, c, r))
  /\ UNCHANGED testing_hours

\* An update_command whose process stops after remove_command has deleted
\* and before save_device_data has written.
UpdateCommandStopped(d, c, r) ==
  /\ validate_command(c)
  /\ Return(remove_command(World, d, c), Call("update_command stopped", d, c, r))
  /\ UNCHANGED testing_hours

SetTestingHours(h) ==
  /\ testing_hours # h
  /\ testing_hours' = h
  /\ UNCHANGED <<ds, clock, steps, hist, inflight>>

\* Wall-clock time passing between two calls.
Advance(h) ==
  /\ steps < MaxOps
  /\ steps' = steps + 1
  /\ clock' = [s |-> clock.s + h * SecPerHour, us |-> 0]
  /\ UNCHANGED <<ds, testing_hours, hist, inflight>>

RunsStart(d, name) ==
  /\ Return(Runs_start(World, d, name), Call("start", d, name, 0))
  /\ UNCHANGED testing_hours

RunsStop(d) ==
  /\ Return(Runs_stop(World, d), Call("stop", d, "", 0))
  /\ UNCHANGED testing_hours

\* NotificationData.add(device, message) with the default type and URL;
\* id is what utils.id_generator() drew, and what the call returns.
NotifAdd(d, id) ==
  /\ Return(NotificationData_add(World, d, NotifMessage, type_Done, None, id),
            Call("NotificationData.add", d, id, 0))
  /\ UNCHANGED testing_hours

NotifAck(d, id) ==
  /\ Return(ack(World, d, id), Call("NotificationData.ack", d, id, 0))
  /\ UNCHANGED testing_hours

\* get_command_entity changes nothing; what it returns is not recorded.
GetCommandEntity(d, c) ==
  /\ Return(World, Call("get_command_entity", d, c, 0))
  /\ UNCHANGED testing_hours

CreateNotification(d, c, id) ==
  /\ Return(create_notification(World, d, c, id), Call("create_notification", d, c, 0))
  /\ UNCHANGED testing_hours

\* add_device_to_DS returns the UUID it drew, which no device has yet.
AddDeviceToDS(device_name, device_uuid) ==
  /\ get_one_from_DS(World, DS_devices_KIND, "device_uuid", device_uuid) = None
  /\ Returns(add_device_to_DS(World, device_name, "", device_uuid, "u1"),
             "add_device_to_DS", <<device_name>>, device_uuid)
  /\ UNCHANGED testing_hours

DeleteDeviceFromDS(device_uuid) ==
  /\ Returns(delete_device_from_DS(World, device_uuid),
             "delete_device_from_DS", <<device_uuid>>, TRUE)
  /\ UNCHANGED testing_hours

GetLatestUserSessionCreatedDate(user_uuid) ==
  LET call == get_latest_user_session_created_date_from_DS(World, user_uuid)
  IN /\ Returns(call.world, "get_latest_user_session_created_date_from_DS",
                <<user_uuid>>, call.ret)
     /\ UNCHANGED testing_hours

CreateIotDeviceRegistryEntry(verification_code, refused) ==
  LET call == create_iot_device_registry_entry(World, verification_code, "Tent", "",
                                               "EDU", "u1", refused)
  IN /\ Returns(call.world, "create_iot_device_registry_entry",
                <<verification_code, refused>>, call.ret)
     /\ UNCHANGED testing_hours

\* Caller p is inside no call.
IsIdle(p) == inflight[p].pc = "idle"

\* The call of caller p has reached inv in world w, count calls having begun:
\* when it has returned, hist records it and the caller is idle again.
Becomes(p, w, inv, count) ==
  /\ steps' = count
  /\ ds' = w.ds
  /\ clock' = w.clock
  /\ IF inv.pc = "done"
     THEN /\ inflight' = [inflight EXCEPT ![p] = Idle]
          /\ hist' = Append(hist, [inv EXCEPT !.post = w.ds, !.ended = count])
     ELSE /\ inflight' = [inflight EXCEPT ![p] = inv]
          /\ hist' = hist
  /\ UNCHANGED testing_hours

\* Caller p calls update_command with the dict of UpdateCommand, and the
\* call makes its first step.
BeginUpdateCommand(p, d, c, r) ==
  /\ IsIdle(p)
  /\ validate_command(c)
  /\ LET cmd_dict == [command |-> c, message |-> "",
                      run_at |-> strftime(plus_hours(clock, r)),
                      repeat |-> r, count |-> 0, URL |-> None]
         next == step(World, Invocation("update_command", d, c, cmd_dict, steps + 1, ds), "")
     IN Becomes(p, next.world, next.inv, steps + 1)

\* Caller p calls Scheduler.add: the dict is built, and update_command
\* makes its first step.
BeginAdd(p, d, c, rh) ==
  /\ IsIdle(p)
  /\ validate_command(c)
  /\ LET next == step([World EXCEPT !.clock = Tick(@)],
                      Invocation("add", d, c, new_cmd_dict(clock, c, rh), steps + 1, ds), "")
     IN Becomes(p, next.world, next.inv, steps + 1)

\* Caller p calls Scheduler.check: it reads the schedule, and has the
\* entries that are due to execute.
BeginCheck(p, d) ==
  /\ IsIdle(p)
  /\ LET now == plus_hours(clock, testing_hours)
         w0 == [World EXCEPT !.clock = Tick(@)]
         sched_list == get_schedule(w0, d)
         IsDue(cmd) == strftime(now) >= cmd.run_at
         due == SelectSeq(sched_list, IsDue)
     IN Becomes(p, w0,
                [Invocation("check", d, "", <<>>, steps + 1, ds) EXCEPT
                   !.now = now, !.queue = due, !.due = due,
                   !.seen = shard_keys(w0, schedule_property, d),
                   !.pc = IF due = <<>> THEN "done" ELSE "notify"],
                steps + 1)

\* Caller p calls Runs.start, which is one put.
BeginStart(p, d, name) ==
  /\ IsIdle(p)
  /\ Becomes(p, Runs_start(World, d, name),
             [Invocation("start", d, name, <<>>, steps + 1, ds) EXCEPT
                !.seen = shard_keys(World, runs_property, d),
                !.saved = {isoformat(Tick(clock))}, !.pc = "done"],
             steps + 1)

\* Caller p calls Runs.stop, which reads the newest run entity.
BeginStop(p, d) ==
  /\ IsIdle(p)
  /\ LET entities == get_sharded_entities(World, DS_device_data_KIND, runs_property,
                                          d, Some(1))
     IN Becomes(p, World,
                [Invocation("stop", d, "", <<>>, steps + 1, ds) EXCEPT
                   !.seen = shard_keys(World, runs_property, d),
                   !.found = IF Len(entities) = 0 THEN None ELSE Some(entities[1]),
                   !.pc = IF Len(entities) = 0 THEN "done" ELSE "put"],
                steps + 1)

\* The call caller p is inside of makes its next step.
Step(p, id) ==
  /\ ~IsIdle(p)
  /\ LET next == step(World, inflight[p], id)
     IN Becomes(p, next.world, next.inv, steps)

\* Wall-clock time passing while no call is in progress.
Pause(h) ==
  /\ \A p \in Callers : IsIdle(p)
  /\ Advance(h)

GetShardedKind(kind, property_name, device_uuid) ==
  /\ Returns(World, "get_sharded_kind", <<kind, property_name, device_uuid>>,
             get_sharded_kind(kind, property_name, device_uuid))
  /\ UNCHANGED testing_hours

GetCo2History(device_uuid, same_object) ==
  /\ Returns(World, "get_co2_history", <<device_uuid>>,
             get_co2_history(World, device_uuid, same_object))
  /\ UNCHANGED testing_hours

GetLedPanelHistory(device_uuid, same_object) ==
  /\ Returns(World, "get_led_panel_history", <<device_uuid>>,
             get_led_panel_history(World, device_uuid, same_object))
  /\ UNCHANGED testing_hours

GetTempAndHumidityHistory(device_uuid, same_object) ==
  /\ Returns(World, "get_temp_and_humidity_history", <<device_uuid>>,
             get_temp_and_humidity_history(World, device_uuid, same_object))
  /\ UNCHANGED testing_hours

\* get_current_CO2_value, get_current_temp_value and get_current_RH_value.
GetCurrentFloatValue(key, device_uuid, same_object) ==
  /\ Returns(World, "get_current_float_value_from_DS", <<device_uuid, key>>,
             get_current_float_value_from_DS(World, key, device_uuid, same_object))
  /\ UNCHANGED testing_hours

GetAllRecent(device_uuid) ==
  /\ Returns(World, "get_all_recent_device_data_properties", <<device_uuid>>,
             get_all_recent_device_data_properties(World, device_uuid))
  /\ UNCHANGED testing_hours

ReadConfig ==
  /\ Returns(World, "read_config", <<>>, read_config(World))
  /\ UNCHANGED testing_hours

WriteConfig(config) ==
  /\ Returns(write_config(World, config), "write_config", <<config>>, PyNone)
  /\ UNCHANGED testing_hours

GetComputedWeatherData(start_date, end_date, arable_device_name) ==
  /\ Returns(World, "get_computed_weather_data",
             <<start_date, end_date, arable_device_name>>,
             get_computed_weather_data(World, start_date, end_date, arable_device_name))
  /\ UNCHANGED testing_hours

Parse(device_ID, message) ==
  /\ Returns(parse(World, device_ID, message), "parse", <<device_ID, message>>, PyNone)
  /\ UNCHANGED testing_hours

ValidateMessage(message) ==
  /\ Returns(World, "validate_message", <<message>>, validate_message(message))
  /\ UNCHANGED testing_hours

Next ==
  \/ \E d \in SchedulerDevices, c \in CommandInputs, rh \in RepeatInputs : Add(d, c, rh)
  \/ \E d \in SchedulerDevices : Check(d, FiredIDs)
  \/ \E d \in SchedulerDevices, c \in CommandInputs : RemoveCommand(d, c)
  \/ \E d \in SchedulerDevices : RemoveAllCommands(d)
  \/ \E d \in SchedulerDevices, c \in CommandInputs : UpdateCommand(d, c, 1)
  \/ \E h \in TestingHours : SetTestingHours(h)
  \/ \E h \in AdvanceHours : Advance(h)

Spec == Init /\ [][Next]_vars

\* The calls that arm and fire schedule entries, MaxFireOps steps of them.
NextFire ==
  \/ \E d \in SchedulerDevices, c \in CommandInputs, rh \in RepeatInputs :
        steps < MaxFireOps /\ Add(d, c, rh)
  \/ \E d \in SchedulerDevices : steps < MaxFireOps /\ Check(d, FiredIDs)
  \/ \E h \in TestingHours : steps < MaxFireOps /\ SetTestingHours(h)
  \/ \E h \in AdvanceHours : steps < MaxFireOps /\ Advance(h)

SpecFire == Init /\ [][NextFire]_vars

NextRuns ==
  \/ \E d \in Devices, name \in RecipeNames : RunsStart(d, name)
  \/ \E d \in Devices : RunsStop(d)
  \/ \E h \in AdvanceHours : Advance(h)

SpecRuns == Init /\ [][NextRuns]_vars

\* The notification ledger: direct adds and acks on every device, and the
\* scheduler firing a one-shot command into it.
NextNotif ==
  \/ \E d \in Devices, id \in IDs : NotifAdd(d, id)
  \/ \E d \in Devices, id \in IDs : NotifAck(d, id)
  \/ \E d \in SchedulerDevices : Add(d, harvest_plant_command, 0)
  \/ \E d \in SchedulerDevices : Check(d, IDs)
  \/ \E h \in AdvanceHours : Advance(h)

SpecNotif == Init /\ [][NextNotif]_vars

\* Calls of get_sharded_kind.
NextShard ==
  \E k \in KindInputs, p \in PropertyInputs, d \in DeviceInputs : GetShardedKind(k, p, d)

SpecShard == Init /\ [][NextShard]_vars

\* The stores the accessors find: the DeviceData entity of d1 may hold any
\* of its keys or not exist, every sensor shard of d1 has a row, arable1 has
\* a weather entity; d2 and arable2 have nothing, and no recipe
\* configuration has been written.
InitAccess ==
  /\ \E dd \in DeviceDataStores :
        ds = [k \in Kinds \cup RecentKinds
                     \cup {DS_device_data_KIND, ds_recipe_entity, ds_weather_entity} |->
                IF k = DS_device_data_KIND THEN dd
                ELSE IF k = ds_weather_entity
                THEN {[key |-> "arable1",
                       props |-> [n \in {"computed"} |-> <<json_dumps(Computed(2, 0))>>]]}
                ELSE IF k = get_device_data_kind(DS_boot_KEY, "d1")
                THEN {SensorRow([timestamp |-> "2024-01-01T00:00:00Z"])}
                ELSE IF k \in RecentKinds /\ k \notin {get_device_data_kind(RecentKeys[i], "d2") :
                                                          i \in 1..Len(RecentKeys)}
                THEN {SensorRow([value |-> "21"])}
                ELSE {}]
  /\ clock = [s |-> 0, us |-> 0]
  /\ testing_hours = 0
  /\ steps = 0
  /\ hist = <<>>
  /\ inflight = [p \in Callers |-> Idle]

NextAccess ==
  \/ \E dev \in DeviceArgs, so \in BOOLEAN :
        steps < MaxAccessOps /\ GetCo2History(dev, so)
  \/ \E dev \in DeviceArgs, so \in BOOLEAN :
        steps < MaxAccessOps /\ GetLedPanelHistory(dev, so)
  \/ \E dev \in DeviceArgs, so \in BOOLEAN :
        steps < MaxAccessOps /\ GetTempAndHumidityHistory(dev, so)
  \/ \E key \in LegacyKeys, dev \in DeviceArgs, so \in BOOLEAN :
        steps < MaxAccessOps /\ GetCurrentFloatValue(key, dev, so)
  \/ \E d \in Devices : steps < MaxAccessOps /\ GetAllRecent(d)
  \/ steps < MaxAccessOps /\ ReadConfig
  \/ \E config \in Configs : steps < MaxAccessOps /\ WriteConfig(config)
  \/ \E name \in ArableNames :
        steps < MaxAccessOps /\ GetComputedWeatherData(date_str(1), date_str(3), name)

SpecAccess == InitAccess /\ [][NextAccess]_vars

\* The messaging relay after construction: an empty database.
InitMqtt ==
  /\ ds = [k \in {influxdb_name} |-> <<>>]
  /\ clock = [s |-> 0, us |-> 0]
  /\ testing_hours = 0
  /\ steps = 0
  /\ hist = <<>>
  /\ inflight = [p \in Callers |-> Idle]

NextMqtt ==
  \/ \E d \in SchedulerDevices, m \in Messages : steps < MaxMqttOps /\ Parse(d, m)
  \/ \E m \in Messages : steps < MaxMqttOps /\ ValidateMessage(m)

SpecMqtt == InitMqtt /\ [][NextMqtt]_vars

\* The weather cache as the weather service left it: arable1 has an entity
\* whose computed property is one of the cached lists.
InitWeather ==
  /\ \E cached \in CachedLists :
        ds = [k \in {ds_weather_entity} |->
                {[key |-> "arable1", props |-> [n \in {"computed"} |-> cached]]}]
  /\ clock = [s |-> 0, us |-> 0]
  /\ testing_hours = 0
  /\ steps = 0
  /\ hist = <<>>
  /\ inflight = [p \in Callers |-> Idle]

NextWeather ==
  \E start_date \in DateInputs, end_date \in DateInputs :
    steps < MaxWeatherOps /\ GetComputedWeatherData(start_date, end_date, "arable1")

SpecWeather == InitWeather /\ [][NextWeather]_vars

\* The scheduler with a process that may stop inside update_command.
NextCrash ==
  \/ \E d \in SchedulerDevices, c \in CommandInputs :
        steps < MaxCrashOps /\ Add(d, c, 0)
  \/ \E d \in SchedulerDevices, c \in CommandInputs :
        steps < MaxCrashOps /\ UpdateCommand(d, c, 1)
  \/ \E d \in SchedulerDevices, c \in CommandInputs :
        steps < MaxCrashOps /\ UpdateCommandStopped(d, c, 1)
  \/ \E d \in SchedulerDevices : steps < MaxCrashOps /\ Check(d, FiredIDs)
  \/ \E h \in AdvanceHours : steps < MaxCrashOps /\ Advance(h)

SpecCrash == Init /\ [][NextCrash]_vars

\* The calls of the scheduler that take a command name.
NextCommands ==
  \/ \E d \in SchedulerDevices, c \in CommandInputs : Add(d, c, 0)
  \/ \E d \in SchedulerDevices, c \in CommandInputs : UpdateCommand(d, c, 1)
  \/ \E d \in SchedulerDevices, c \in CommandInputs : RemoveCommand(d, c)
  \/ \E d \in SchedulerDevices, c \in CommandInputs : GetCommandEntity(d, c)
  \/ \E d \in SchedulerDevices, c \in CommandInputs, id \in FiredIDs :
        CreateNotification(d, c, id)

SpecCommands == Init /\ [][NextCommands]_vars

\* The three ledgers together, on every device: the scheduler with one
\* command, the notifications and the runs.
NextFrame ==
  \/ \E d \in Devices : Add(d, check_fluid_command, 0)
  \/ \E d \in Devices : UpdateCommand(d, check_fluid_command, 1)
  \/ \E d \in Devices : RemoveCommand(d, check_fluid_command)
  \/ \E d \in Devices : RemoveAllCommands(d)
  \/ \E d \in Devices : Check(d, FiredIDs)
  \/ \E d \in Devices, id \in FiredIDs : CreateNotification(d, check_fluid_command, id)
  \/ \E d \in Devices, id \in FiredIDs : NotifAdd(d, id)
  \/ \E d \in Devices, id \in FiredIDs : NotifAck(d, id)
  \/ \E d \in Devices : RunsStart(d, "Demo")
  \/ \E d \in Devices : RunsStop(d)

SpecFrame == Init /\ [][NextFrame]_vars

\* The datastore of an installation with no device registered yet.
InitDevices ==
  /\ ds = [k \in Kinds \cup {DS_devices_KIND} |-> {}]
  /\ clock = [s |-> 0, us |-> 0]
  /\ testing_hours = 0
  /\ steps = 0
  /\ hist = <<>>
  /\ inflight = [p \in Callers |-> Idle]

\* Devices are registered and deleted, and write their ledgers.
NextDevices ==
  \/ \E name \in DeviceNames, d \in Devices : AddDeviceToDS(name, d)
  \/ \E d \in Devices : DeleteDeviceFromDS(d)
  \/ \E d \in Devices : RunsStart(d, "Demo")
  \/ \E d \in Devices : Add(d, check_fluid_command, 0)
  \/ \E d \in Devices, id \in FiredIDs : NotifAdd(d, id)

SpecDevices == InitDevices /\ [][NextDevices]_vars

\* The sessions the login service has stored: any of StoredSessions.
InitSessions ==
  /\ \E stored \in SUBSET StoredSessions : ds = [k \in {DS_user_session_KIND} |-> stored]
  /\ clock = [s |-> 2 * SecPerHour, us |-> 0]
  /\ testing_hours = 0
  /\ steps = 0
  /\ hist = <<>>
  /\ inflight = [p \in Callers |-> Idle]

NextSessions ==
  \E u \in Users : steps < MaxSessionOps /\ GetLatestUserSessionCreatedDate(u)

SpecSessions == InitSessions /\ [][NextSessions]_vars

\* The keys the devices have uploaded, any of UploadedKeys, and a registry
\* with no device.
InitIot ==
  /\ \E uploaded \in SUBSET UploadedKeys :
        ds = [k \in {devicePublicKeys, device_registry} |->
                IF k = devicePublicKeys THEN uploaded ELSE {}]
  /\ clock = [s |-> 0, us |-> 0]
  /\ testing_hours = 0
  /\ steps = 0
  /\ hist = <<>>
  /\ inflight = [p \in Callers |-> Idle]

NextIot ==
  \E code \in VerificationCodes, refused \in BOOLEAN :
    steps < MaxIotOps /\ CreateIotDeviceRegistryEntry(code, refused)

SpecIot == InitIot /\ [][NextIot]_vars

\* Two callers of the scheduler of one device and one command: each call for
\* a step at a time, in any order.
NextRace ==
  \/ \E p \in Callers, d \in SchedulerDevices, r \in {0, 1} :
        steps < MaxRaceOps /\ BeginUpdateCommand(p, d, check_fluid_command, r)
  \/ \E p \in Callers, d \in SchedulerDevices :
        steps < MaxRaceOps /\ BeginAdd(p, d, check_fluid_command, 1)
  \/ \E p \in Callers, d \in SchedulerDevices : steps < MaxRaceOps /\ BeginCheck(p, d)
  \/ \E p \in Callers, id \in FiredIDs : Step(p, id)
  \/ \E h \in TestingHours : (\A p \in Callers : IsIdle(p)) /\ SetTestingHours(h)

SpecRace == Init /\ [][NextRace]_vars

\* Two callers of the runs ledger of one device.
NextRunsRace ==
  \/ \E p \in Callers, d \in SchedulerDevices :
        steps < MaxRunsRaceOps /\ BeginStart(p, d, "Demo")
  \/ \E p \in Callers, d \in SchedulerDevices : steps < MaxRunsRaceOps /\ BeginStop(p, d)
  \/ \E p \in Callers, id \in FiredIDs : Step(p, id)
  \/ steps < MaxRunsRaceOps /\ Pause(1)

SpecRunsRace == Init /\ [][NextRunsRace]_vars

\* ------------------------------------------------------- reading the history
\* The shard of a property of a device in datastore store.
Shard(store, property_name, d) == store[get_device_data_kind(property_name, d)]

\* The datastore call i returned with.
Post(i) == IF i = Len(hist) THEN ds ELSE hist[i + 1].pre

\* The schedule entities of device d holding command c.
EntriesOf(store, d, c) ==
  {e \in Shard(store, DS_schedule_KEY, d) : e.data.command = c}

\* The notifications call i saved.
Emitted(i) ==
  Shard(Post(i), DS_notifications_KEY, hist[i].device)
    \ Shard(hist[i].pre, DS_notifications_KEY, hist[i].device)

\* now_str of the check that is call i.
NowStr(i) == strftime(plus_hours(hist[i].now, hist[i].hours))

\* The repeat an add that is call i stores.
RepeatOf(i) ==
  IF hist[i].repeat_hours >= 0 THEN hist[i].repeat_hours
  ELSE commands[hist[i].command].default_repeat_hours

\* The run_at an add that is call i stores.
RunAtOf(i) == strftime(plus_hours(hist[i].now, RepeatOf(i)))

IsAdd(i) == hist[i].op = "add" /\ validate_command(hist[i].command)

\* Call i + 1 is a check of the device of call i.
ThenCheck(i) ==
  /\ i + 1 <= Len(hist)
  /\ hist[i + 1].op = "check"
  /\ hist[i + 1].device = hist[i].device

\* ------------------------------------------------------------------ claims

\* C1: whatever calls were made, the schedule of every device holds at most
\* one entry per command name.
C1_OneEntryPerCommand ==
  \A d \in Devices, c \in DOMAIN commands : Cardinality(EntriesOf(ds, d, c)) <= 1

\* C2: add(device, check_fluid), with the default repeat, on an empty schedule, then one check past the
\* entry's run_at: exactly one notification, and the schedule's entry has
\* count 1 and run_at = the old run_at + repeat hours.
C2_RepeatRoundTrip ==
  \A i \in 1..Len(hist) :
    ( /\ IsAdd(i)
      /\ hist[i].command = check_fluid_command
      /\ hist[i].repeat_hours = -1
      /\ Shard(hist[i].pre, DS_schedule_KEY, hist[i].device) = {}
      /\ ThenCheck(i)
      /\ NowStr(i + 1) >= RunAtOf(i) )
    => /\ Cardinality(Emitted(i + 1)) = 1
       /\ EntriesOf(Post(i + 1), hist[i].device, check_fluid_command) # {}
       /\ \A e \in EntriesOf(Post(i + 1), hist[i].device, check_fluid_command) :
             /\ e.data.count = 1
             /\ e.data.run_at = RunAtOf(i) + RepeatOf(i) * SecPerHour

\* C3: a one-shot command that was added and is due fires once over two
\* checks made with no time between them: the first check emits its
\* notification and deletes the entry, the second emits nothing.
C3_OneShotFiresOnce ==
  \A i \in 1..Len(hist) :
    ( /\ IsAdd(i)
      /\ RepeatOf(i) = 0
      /\ ThenCheck(i)
      /\ NowStr(i + 1) >= RunAtOf(i) )
    => /\ Cardinality({n \in Emitted(i + 1) :
                          n.data.message = commands[hist[i].command].message}) = 1
       /\ EntriesOf(Post(i + 1), hist[i].device, hist[i].command) = {}
       /\ (ThenCheck(i + 1) /\ NowStr(i + 2) = NowStr(i + 1))
            => Emitted(i + 2) = {}

\* C4: after add(device, command, repeat_hours) with a valid command, the
\* schedule's entries for the command have count 0, the repeat asked for
\* (the table's default when repeat_hours < 0) and run_at = now + repeat
\* hours, and no entry the command had before the call is left.
C4_AddReplaces ==
  \A i \in 1..Len(hist) :
    IsAdd(i) =>
      /\ EntriesOf(Post(i), hist[i].device, hist[i].command) # {}
      /\ \A e \in EntriesOf(Post(i), hist[i].device, hist[i].command) :
            /\ e.data.count = 0
            /\ e.data.repeat = RepeatOf(i)
            /\ e.data.run_at = RunAtOf(i)
      /\ EntriesOf(hist[i].pre, hist[i].device, hist[i].command)
            \cap EntriesOf(Post(i), hist[i].device, hist[i].command) = {}

\* C5: check leaves every entry that is not due (run_at > now) in place and
\* unchanged, and emits one notification per due entry and none for the rest.
C5_CheckFrame ==
  \A i \in 1..Len(hist) :
    hist[i].op = "check" =>
      LET before == Shard(hist[i].pre, DS_schedule_KEY, hist[i].device)
          after  == Shard(Post(i), DS_schedule_KEY, hist[i].device)
      IN /\ \A e \in before : e.data.run_at > NowStr(i) => e \in after
         /\ Cardinality(Emitted(i))
              = Cardinality({e \in before : e.data.run_at <= NowStr(i)})

\* C6: after remove_command(device, command) the schedule has no entry for
\* the command, and after remove_all_commands(device) it is empty.
C6_RemoveRemoves ==
  \A i \in 1..Len(hist) :
    /\ hist[i].op = "remove_command"
         => EntriesOf(Post(i), hist[i].device, hist[i].command) = {}
    /\ hist[i].op = "remove_all_commands"
         => Shard(Post(i), DS_schedule_KEY, hist[i].device) = {}

\* The schedule entities the check that is call i left behind and did not find.
Rearmed(i) ==
  Shard(Post(i), DS_schedule_KEY, hist[i].device)
    \ Shard(hist[i].pre, DS_schedule_KEY, hist[i].device)

\* The interval C7 states for a re-armed entry.
SteadyRepeat(data) ==
  IF data.command = take_measurements_command
  THEN commands[take_measurements_command].default_repeat_hours
  ELSE data.repeat

C8_CheckIdempotent ==
  \A i \in 1..Len(hist) :
    (hist[i].op = "check" /\ ThenCheck(i) /\ NowStr(i + 1) = NowStr(i))
    => /\ Emitted(i + 1) = {}
       /\ Shard(Post(i + 1), DS_schedule_KEY, hist[i].device)
            = Shard(hist[i + 1].pre, DS_schedule_KEY, hist[i].device)

\* The open runs of device d.
OpenRuns(store, d) == {e \in Shard(store, DS_runs_KEY, d) : e.data.end = None}

\* C9: whatever Runs.start and Runs.stop calls were made, a device has at
\* most one run whose end is None.
C9_OneOpenRun ==
  \A d \in Devices : Cardinality(OpenRuns(ds, d)) <= 1

\* Call i is a start on a device with no runs and call i + 1 stops that device.
StartThenStop(i) ==
  /\ hist[i].op = "start"
  /\ Shard(hist[i].pre, DS_runs_KEY, hist[i].device) = {}
  /\ i + 1 <= Len(hist)
  /\ hist[i + 1].op = "stop"
  /\ hist[i + 1].device = hist[i].device

\* C10: start(device, name) on a device with no runs, then stop(device),
\* leaves exactly one run, of recipe name, with start and end set and
\* end >= start.
C10_RunsRoundTrip ==
  \A i \in 1..Len(hist) :
    StartThenStop(i) =>
      LET runs == Shard(Post(i + 1), DS_runs_KEY, hist[i].device)
      IN /\ Cardinality(runs) = 1
         /\ \A e \in runs :
               /\ e.data.recipe_name = hist[i].command
               /\ e.data.start # None
               /\ e.data.end # None
               /\ e.data.end[1] >= e.data.start[1]

\* A start on a device with no runs was followed by a stop an hour or more later.
C10_Witness ==
  \E i \in 1..Len(hist) :
    /\ StartThenStop(i)
    /\ hist[i + 1].now.s > hist[i].now.s

\* ------------------------------------------------------ notification ledger
\* The notification entities of device d in datastore store.
Notifs(store, d) == Shard(store, DS_notifications_KEY, d)

\* The notification entities of the device of call i, before it, that hold
\* the ID the call names.
Matches(i) == {e \in Notifs(hist[i].pre, hist[i].device) : e.data.ID = hist[i].command}

\* The newest entity of a non-empty set of entities.
Newest(S) == CHOOSE e \in S : \A f \in S : ~TsLess(e.timestamp, f.timestamp)

IsAck(i) == hist[i].op = "NotificationData.ack"

\* C11: ack(device, id) deletes the newest stored notification of the device
\* whose ID is id, and only that one, when there is one, and deletes nothing
\* when there is none; every other notification, of this and of every other
\* device, records with the same ID included, is as it was.
C11_AckDeletesOne ==
  \A i \in 1..Len(hist) :
    IsAck(i) =>
      /\ \A d \in Devices : d # hist[i].device
            => Notifs(Post(i), d) = Notifs(hist[i].pre, d)
      /\ Notifs(Post(i), hist[i].device) =
            IF Matches(i) = {} THEN Notifs(hist[i].pre, hist[i].device)
            ELSE Notifs(hist[i].pre, hist[i].device) \ {Newest(Matches(i))}

\* An ack found two records holding its ID, and left one of them.
C11_Witness ==
  \E i \in 1..Len(hist) :
    /\ IsAck(i)
    /\ Cardinality(Matches(i)) = 2
    /\ Cardinality(Notifs(Post(i), hist[i].device)) = 1

\* The number of notifications of device d holding id that the first i
\* calls added, directly or by a check firing, and no ack has removed since.
RECURSIVE Ledger(_, _, _)
Ledger(i, d, id) ==
  IF i = 0 THEN 0
  ELSE LET prev == Ledger(i - 1, d, id)
       IN IF hist[i].device # d THEN prev
          ELSE IF hist[i].op = "NotificationData.add" /\ hist[i].command = id
               THEN prev + 1
          ELSE IF IsAck(i) /\ hist[i].command = id /\ prev > 0
               THEN prev - 1
          ELSE IF hist[i].op = "check"
               THEN prev + Cardinality({n \in Emitted(i) : n.data.ID = id})
          ELSE prev

\* C12: get_unacknowledged(device) returns, for every ID, as many records as
\* were added with it and not removed by an ack since, and nothing else; and
\* every NotificationData.add has contributed one record, carrying the ID the
\* call returned.
C12_LedgerIsAddsMinusAcks ==
  /\ \A d \in Devices :
        LET got == get_unacknowledged(World, d)
        IN /\ \A id \in IDs :
                Cardinality({k \in 1..Len(got) : got[k].ID = id})
                  = Ledger(Len(hist), d, id)
           /\ \A k \in 1..Len(got) : got[k].ID \in IDs
  /\ \A i \in 1..Len(hist) :
        hist[i].op = "NotificationData.add" =>
          /\ Cardinality(Emitted(i)) = 1
          /\ Notifs(hist[i].pre, hist[i].device) \subseteq Notifs(Post(i), hist[i].device)
          /\ \A n \in Emitted(i) : n.data.ID = hist[i].command

\* A device's ledger still holds a notification after an ack has removed
\* another one.
C12_Witness ==
  \E d \in Devices :
    /\ Len(get_unacknowledged(World, d)) >= 1
    /\ \E i \in 1..Len(hist) : IsAck(i) /\ hist[i].device = d /\ Matches(i) # {}

\* ------------------------------------------------------------------ reads
\* The place of entity e among the entities S of a shard, newest first.
RankOf(e, S) == 1 + Cardinality({f \in S : TsLess(e.timestamp, f.timestamp)})

\* The number of rows a read with this count returns from a shard of n rows.
RowsOf(count, n) ==
  IF count = None THEN n ELSE IF count[1] < n THEN count[1] ELSE n

\* C13: get_device_data(property, device, count) returns the data of the
\* min(count, n) entities with the greatest timestamps of the n the shard
\* holds, newest first, and of all n, newest first, when count is None.
C13_ReadNewestFirst ==
  \A p \in Properties, d \in Devices, count \in Counts :
    LET S == Shard(ds, p, d)
        got == get_device_data(World, p, d, count)
    IN /\ Len(got) = RowsOf(count, Cardinality(S))
       /\ \A k \in 1..Len(got) : \E e \in S : RankOf(e, S) = k /\ got[k] = e.data

\* A shard holds three entities that differ in their data, so a read of two
\* rows, and of one, has to leave some out.
C13_Witness ==
  \E p \in Properties, d \in Devices :
    /\ Cardinality(Shard(ds, p, d)) = 3
    /\ Cardinality({e.data : e \in Shard(ds, p, d)}) = 3
    /\ Len(get_device_data(World, p, d, Some(2))) = 2

\* ------------------------------------------------------------- shard names
\* C14: get_sharded_kind is deterministic and collision-free: two calls
\* return the same shard name if and only if they were given the same
\* (kind, property, device).
C14_ShardNamesInjective ==
  \A i, j \in 1..Len(hist) :
    (hist[i].op = "get_sharded_kind" /\ hist[j].op = "get_sharded_kind")
    => (hist[i].ret = hist[j].ret <=> hist[i].args = hist[j].args)

\* ---------------------------------------------------------------- accessors
\* The world call i started from.
PreWorld(i) == [ds |-> hist[i].pre, clock |-> hist[i].now]

HistoryOps ==
  {"get_co2_history", "get_led_panel_history", "get_temp_and_humidity_history"}
CurrentOps == {"get_current_float_value_from_DS"}

\* Call i is an accessor of database.py given no device (None, or the
\* string 'None') or a device that has no DeviceData entity.
AbsentDevice(i) ==
  /\ hist[i].op \in HistoryOps \cup CurrentOps
  /\ \/ hist[i].args[1] \in {None, Some("None")}
     \/ get_by_key_from_DS(PreWorld(i), DS_device_data_KIND, hist[i].args[1][1]) = None

\* The empty shapes of the histories.
EmptyHistory(op) ==
  IF op = "get_temp_and_humidity_history"
  THEN PyDict([RH |-> <<>>, temp |-> <<>>])
  ELSE PyList(<<>>)

\* C15: for a device with no stored data, and for a device UUID that is None
\* or 'None', every get_*_history returns its empty list or dict of empty
\* lists and every get_current_* returns the empty string; none raises.
C15_AbsentGivesEmptyShape ==
  \A i \in 1..Len(hist) :
    AbsentDevice(i) =>
      hist[i].ret = IF hist[i].op \in CurrentOps THEN PyStr("")
                    ELSE EmptyHistory(hist[i].op)

\* C15, amended: for a device with no stored data, and for a device UUID that
\* is None or 'None', every get_*_history returns its empty list or dict of
\* empty lists and every get_current_* returns None; none raises.
C15_AbsentGivesEmptyOrNone ==
  \A i \in 1..Len(hist) :
    AbsentDevice(i) =>
      hist[i].ret = IF hist[i].op \in CurrentOps THEN PyNone
                    ELSE EmptyHistory(hist[i].op)

\* A history and a current value were asked of d2, which has no entity,
\* while d1 has one that holds CO2 readings.
C15_Witness ==
  /\ \E e \in ds[DS_device_data_KIND] : e.key = "d1" /\ DS_co2_KEY \in DOMAIN e.props
  /\ \E i, j \in 1..Len(hist) :
        /\ hist[i].op = "get_co2_history" /\ hist[i].args = <<Some("d2")>>
        /\ hist[j].op \in CurrentOps /\ hist[j].args = <<Some("d2"), DS_co2_KEY>>

\* Call i reads data that is absent: the recent properties of a device with
\* no row in any shard, the recipe configuration when no entity holds it, the
\* computed weather of a device with no weather entity.
AbsentData(i) ==
  \/ /\ hist[i].op = "get_all_recent_device_data_properties"
     /\ \A k \in 1..Len(RecentKeys) : Shard(hist[i].pre, RecentKeys[k], hist[i].args[1]) = {}
  \/ /\ hist[i].op = "read_config"
     /\ get_by_key_from_DS(PreWorld(i), ds_recipe_entity, ds_recipe_config) = None
  \/ /\ hist[i].op = "get_computed_weather_data"
     /\ get_by_key_from_DS(PreWorld(i), ds_weather_entity, hist[i].args[3]) = None

\* C16: no accessor lets an exception through when the data it reads is
\* absent: get_all_recent_device_data_properties of a device with no entries
\* returns the dict of boot_time and every property to '', and read_config
\* and get_computed_weather_data return a result when their entity does not
\* exist.
C16_AbsentNeverRaises ==
  \A i \in 1..Len(hist) :
    AbsentData(i) =>
      /\ hist[i].ret.py # "raise"
      /\ hist[i].op = "get_all_recent_device_data_properties"
           => hist[i].ret =
                PyDict([key \in {"boot_time"} \cup {RecentKeys[k] : k \in 1..Len(RecentKeys)} |-> ""])

\* ------------------------------------------------------------------ messages
\* The mandatory fields of a message type.
Mandatory(message_type) ==
  CASE message_type \in {messageType_EnvVar, messageType_CommandReply}
         -> {var_KEY, values_KEY}
    [] message_type \in {messageType_Image, messageType_ImageUpload}
         -> {varName_KEY, imageType_KEY, fileName_KEY}
    [] message_type = messageType_RecipeEvent
         -> {recipeAction_KEY, recipeName_KEY}
    [] OTHER -> {}

RecognizedTypes ==
  {messageType_EnvVar, messageType_CommandReply, messageType_Image,
   messageType_ImageUpload, messageType_RecipeEvent}

\* The message has a recognized messageType and every mandatory field of it.
Complete(message) ==
  /\ messageType_KEY \in DOMAIN message
  /\ message[messageType_KEY] \in RecognizedTypes
  /\ Mandatory(message[messageType_KEY]) \subseteq DOMAIN message

\* The points the parse that is call i wrote.
Written(i) ==
  SubSeq(Post(i)[influxdb_name], Len(hist[i].pre[influxdb_name]) + 1,
         Len(Post(i)[influxdb_name]))

\* C17: validate_message returns True only for a message that has a
\* recognized messageType and every mandatory field of its type, and parse
\* writes nothing for a message that lacks any of them.
C17_ValidOnlyIfComplete ==
  \A i \in 1..Len(hist) :
    /\ (hist[i].op = "validate_message" /\ hist[i].ret) => Complete(hist[i].args[1])
    /\ (hist[i].op = "parse" /\ ~Complete(hist[i].args[2])) => Written(i) = <<>>

\* The messageType of a message, or "" when it has none.
TypeOf(message) ==
  IF messageType_KEY \in DOMAIN message THEN message[messageType_KEY] ELSE ""

\* The message has var and values, and its value can be read.
Readable(message) ==
  /\ {var_KEY, values_KEY} \subseteq DOMAIN message
  /\ message[values_KEY] # Malformed

\* C18: parse writes at most one point per message.  An EnvVar message with
\* readable var and values writes one point of measurement 'env_vars'; such
\* a CommandReply writes one point whose measurement is its var; an
\* ImageUpload with varName and a structured fileName writes one point of
\* measurement 'images'; no ImageUpload writes an 'env_vars' point; an Image,
\* a RecipeEvent and a message of any other type or of none write nothing.
C18_OnePointPerMessage ==
  \A i \in 1..Len(hist) :
    hist[i].op = "parse" =>
      LET message == hist[i].args[2]
          points == Written(i)
      IN /\ Len(points) <= 1
         /\ TypeOf(message) = messageType_EnvVar =>
               /\ Readable(message) => Len(points) = 1
               /\ \A k \in 1..Len(points) : points[k].measurement = "env_vars"
         /\ TypeOf(message) = messageType_CommandReply =>
               /\ Readable(message) => Len(points) = 1
               /\ \A k \in 1..Len(points) : points[k].measurement = message[var_KEY]
         /\ TypeOf(message) = messageType_ImageUpload =>
               /\ ( /\ {varName_KEY, fileName_KEY} \subseteq DOMAIN message
                    /\ message[fileName_KEY] = StructuredFileName ) => Len(points) = 1
               /\ \A k \in 1..Len(points) : points[k].measurement = "images"
         /\ TypeOf(message) \notin
               {messageType_EnvVar, messageType_CommandReply, messageType_ImageUpload}
               => points = <<>>

\* A CommandReply of status has been filed under 'status'.
C18_Witness ==
  \E i \in 1..Len(hist) :
    /\ hist[i].op = "parse"
    /\ TypeOf(hist[i].args[2]) = messageType_CommandReply
    /\ Len(Written(i)) = 1
    /\ Written(i)[1].measurement = DS_status_KEY

\* -------------------------------------------------------------------- weather
\* The day of a cached reading.
DayOf(reading) == reading.time.date.day

\* The decoded cached list the query that is call i read.
CachedOf(i) ==
  LET entity == CHOOSE e \in hist[i].pre[ds_weather_entity] : e.key = hist[i].args[3]
  IN [k \in 1..Len(entity.props["computed"]) |-> json_loads(entity.props["computed"][k])]

\* The readings of the list whose day is from..to, in the order of the list.
InRange(list, from, to) ==
  LET Test(reading) == from <= DayOf(reading) /\ DayOf(reading) <= to
  IN SelectSeq(list, Test)

\* The cached readings in the range of the query that is call i.
Wanted(i) == InRange(CachedOf(i), hist[i].args[1].day, hist[i].args[2].day)

\* Sequence a is sequence b with some items left out.
RECURSIVE IsSubSeq(_, _)
IsSubSeq(a, b) ==
  IF a = <<>> THEN TRUE
  ELSE IF b = <<>> THEN FALSE
  ELSE IF Head(a) = Head(b) THEN IsSubSeq(Tail(a), Tail(b))
  ELSE IsSubSeq(a, Tail(b))

IsWeatherQuery(i) == hist[i].op = "get_computed_weather_data"

IsStopped(i) == hist[i].op = "update_command stopped"

\* Call j arms the command of call i on the device of call i.
Arms(j, i) ==
  /\ hist[j].op \in {"add", "update_command"}
  /\ hist[j].device = hist[i].device
  /\ hist[j].command = hist[i].command

\* C20: when update_command stops after its delete and before its insert,
\* the schedule is left with no entry for a command that had one before the
\* call, and no later call other than a new add or update_command of the
\* command brings one back.
C20_StopLosesEntry ==
  \A i \in 1..Len(hist) :
    (IsStopped(i) /\ EntriesOf(hist[i].pre, hist[i].device, hist[i].command) # {}) =>
      \A j \in i..Len(hist) :
        (\A k \in (i + 1)..j : ~Arms(k, i))
          => EntriesOf(Post(j), hist[i].device, hist[i].command) = {}

\* --------------------------------------------------------------- the update
\* C24: update_command(device, cmd_dict) replaces the existing entry of
\* cmd_dict's command: the newest entry of the command is gone and one entry
\* holding cmd_dict has come; and when the schedule has no entry for the
\* command before the call, the schedule is unchanged after it.
C24_UpdateOnlyReplaces ==
  \A i \in 1..Len(hist) :
    (hist[i].op = "update_command" /\ validate_command(hist[i].command)) =>
      LET before == EntriesOf(hist[i].pre, hist[i].device, hist[i].command)
          after == EntriesOf(Post(i), hist[i].device, hist[i].command)
      IN /\ before = {} =>
               Shard(Post(i), DS_schedule_KEY, hist[i].device)
                 = Shard(hist[i].pre, DS_schedule_KEY, hist[i].device)
         /\ before # {} =>
               /\ Newest(before) \notin after
               /\ before \ {Newest(before)} \subseteq after
               /\ Cardinality(after \ before) = 1

\* ------------------------------------------------------ duplicate timestamps
\* C26: the list get_computed_weather_data returns has the duplicate
\* timestamps filtered out: whatever the cached list, runs of three and more
\* entries of one time included, no two entries that follow one another in
\* the returned list have the same time.
C26_NoAdjacentDuplicates ==
  \A i \in 1..Len(hist) :
    (IsWeatherQuery(i) /\ hist[i].ret.py = "list") =>
      \A k \in 1..(Len(hist[i].ret.val) - 1) :
        hist[i].ret.val[k].time # hist[i].ret.val[k + 1].time

\* ---------------------------------------------------------- invalid commands
\* The calls of the scheduler that validate a command name.
ValidatingOps ==
  {"add", "update_command", "remove_command", "get_command_entity", "create_notification"}

\* Call i was given a command name that is not in the command table.
IsInvalidCall(i) ==
  hist[i].op \in ValidatingOps /\ ~validate_command(hist[i].command)

\* C27: add, update_command, remove_command, get_command_entity and
\* create_notification called with a command name that is not in the command
\* table change no schedule entry and create no notification: the datastore
\* is after the call what it was before it.
C27_InvalidCommandChangesNothing ==
  \A i \in 1..Len(hist) : IsInvalidCall(i) => Post(i) = hist[i].pre

\* create_notification was called with an unknown command name on a device
\* that has a schedule entry and a notification.
C27_Witness ==
  \E i \in 1..Len(hist) :
    /\ IsInvalidCall(i)
    /\ hist[i].op = "create_notification"
    /\ Shard(hist[i].pre, DS_schedule_KEY, hist[i].device) # {}
    /\ Shard(hist[i].pre, DS_notifications_KEY, hist[i].device) # {}

\* -------------------------------------------------------------------- frames
\* The property shards of its device a call may write.
Touched(op) ==
  CASE op \in {"add", "update_command", "remove_command", "remove_all_commands"}
         -> {DS_schedule_KEY}
    [] op = "check" -> {DS_schedule_KEY, DS_notifications_KEY}
    [] op \in {"create_notification", "NotificationData.add", "NotificationData.ack"}
         -> {DS_notifications_KEY}
    [] op \in {"start", "stop"} -> {DS_runs_KEY}
    [] OTHER -> {}

\* C28: a scheduler, notification or runs call for device A leaves the
\* schedule, notification and runs shards of every other device as they
\* were, and leaves as they were the shards of A of the properties it does
\* not work on: the scheduler's calls write the schedule, check the
\* notifications too, the notification calls the notifications, the runs
\* calls the runs.
C28_OtherShardsUnchanged ==
  \A i \in 1..Len(hist) :
    \A p \in Properties, d \in Devices :
      (d # hist[i].device \/ p \notin Touched(hist[i].op))
        => Shard(Post(i), p, d) = Shard(hist[i].pre, p, d)

\* A check of one device fired an entry, writing the schedule and the
\* notifications of the device, while another device had a schedule entry.
C28_Witness ==
  \E i \in 1..Len(hist) :
    /\ hist[i].op = "check"
    /\ Emitted(i) # {}
    /\ Shard(Post(i), DS_schedule_KEY, hist[i].device)
         # Shard(hist[i].pre, DS_schedule_KEY, hist[i].device)
    /\ \E d \in Devices :
          d # hist[i].device /\ Shard(hist[i].pre, DS_schedule_KEY, d) # {}

\* ------------------------------------------------------------ deleted devices
\* C25: after delete_device_from_DS(device_uuid) has returned True the device
\* is gone from the Devices collection and from the DeviceData collections:
\* no Devices entity holds the UUID and the device has no schedule, no
\* notification and no run left.
C25_DeviceGone ==
  \A i \in 1..Len(hist) :
    (hist[i].op = "delete_device_from_DS" /\ hist[i].ret = TRUE) =>
      /\ \A e \in Post(i)[DS_devices_KIND] : e.props.device_uuid # hist[i].args[1]
      /\ \A p \in Properties : Shard(Post(i), p, hist[i].args[1]) = {}

\* ------------------------------------------------------------------ sessions
\* The sessions of user u in datastore store.
SessionsOf(store, u) == {x \in store[DS_user_session_KIND] : x.props.user_uuid = u}

IsSessionRead(i) == hist[i].op = "get_latest_user_session_created_date_from_DS"

\* C30: get_latest_user_session_created_date_from_DS(user) returns the
\* greatest created_date of the user's sessions, as a '%FT%XZ' string, and
\* None when the user has none; after it has returned, the sessions of the
\* user that are left are the ones whose created_date is, written so, the
\* date returned, and the sessions of the other users are as they were.
C30_LatestSessionOnly ==
  \A i \in 1..Len(hist) :
    IsSessionRead(i) =>
      LET u == hist[i].args[1]
          before == SessionsOf(hist[i].pre, u)
          after == SessionsOf(Post(i), u)
      IN /\ before = {} => hist[i].ret = PyNone /\ after = {}
         /\ before # {} =>
               /\ hist[i].ret.py = "str"
               /\ \E x \in before : strftime(x.props.created_date) = hist[i].ret.val
               /\ \A x \in before : strftime(x.props.created_date) <= hist[i].ret.val
               /\ after = {x \in before : strftime(x.props.created_date) = hist[i].ret.val}
         /\ \A v \in Users : v # u => SessionsOf(Post(i), v) = SessionsOf(hist[i].pre, v)

\* The call found three sessions of its user, one of them older, and left
\* the two of the latest second, while another user had an old session too.
C30_Witness ==
  \E i \in 1..Len(hist) :
    /\ IsSessionRead(i)
    /\ Cardinality(SessionsOf(hist[i].pre, hist[i].args[1])) = 3
    /\ Cardinality(SessionsOf(Post(i), hist[i].args[1])) = 2
    /\ \E v \in Users : v # hist[i].args[1] /\ Cardinality(SessionsOf(Post(i), v)) = 2

\* -------------------------------------------------------------- registration
IsRegistration(i) == hist[i].op = "create_iot_device_registry_entry"

\* The documents of datastore store that hold the code of call i.
KeysOf(store, i) ==
  {d \in store[devicePublicKeys] :
     "cksum" \in DOMAIN d.fields /\ d.fields["cksum"] = hist[i].args[1]}

\* The documents whose state call i has made 'verified'.
Verified(i) ==
  {d \in Post(i)[devicePublicKeys] :
     /\ "state" \in DOMAIN d.fields /\ d.fields["state"] = "verified"
     /\ d \notin hist[i].pre[devicePublicKeys]}

\* The devices call i has put into the registry.
Registered(i) == Post(i)[device_registry] \ hist[i].pre[device_registry]

\* C29: create_iot_device_registry_entry makes the state of the public-key
\* record 'verified' only after the device has been created in the registry:
\* a call that verifies a record has registered a device, and it is the
\* device it returns; and when the code is not found, when a document of the
\* code, the first of them, lacks one of key, cksum, state and MAC, or when the registry refuses
\* the create, the call raises and leaves the registry and every record as
\* they were.
C29_VerifiedOnlyAfterCreate ==
  \A i \in 1..Len(hist) :
    IsRegistration(i) =>
      /\ Verified(i) # {} =>
            /\ Cardinality(Registered(i)) = 1
            /\ hist[i].ret.py = "tuple"
            /\ \A dev \in Registered(i) : dev.id = hist[i].ret.val[1]
      /\ ( \/ KeysOf(hist[i].pre, i) = {}
           \/ \E d \in KeysOf(hist[i].pre, i) :
                 /\ \A e \in KeysOf(hist[i].pre, i) : d.id <= e.id
                 /\ ~({"key", "cksum", "state", "MAC"} \subseteq DOMAIN d.fields)
           \/ hist[i].args[2] )
           => hist[i].ret.py = "raise"
      /\ hist[i].ret.py = "raise" => Post(i) = hist[i].pre
      /\ hist[i].ret.py # "raise" => Verified(i) # {} \/ Registered(i) # {}

\* The registry refused the create for a code whose record is complete and
\* not verified yet.
C29_Witness ==
  \E i \in 1..Len(hist) :
    /\ IsRegistration(i)
    /\ hist[i].args[2]
    /\ hist[i].ret = Raised("HttpError")
    /\ \E d \in KeysOf(hist[i].pre, i) :
          /\ {"key", "cksum", "state", "MAC"} \subseteq DOMAIN d.fields
          /\ d.fields["state"] = "unverified"

\* ---------------------------------------------------------- concurrent calls
\* Calls i and j of hist arm the same command of the same device.
SameCommand(i, j) ==
  /\ hist[i].op \in {"add", "update_command"}
  /\ hist[j].op \in {"add", "update_command"}
  /\ hist[i].device = hist[j].device
  /\ hist[i].command = hist[j].command

\* Call j began before call i returned, returned after it, and no third call
\* began before j returned.
Overlapped(i, j) ==
  /\ i < j
  /\ hist[j].began <= hist[i].ended
  /\ hist[j].ended = IF hist[i].began > hist[j].began THEN hist[i].began ELSE hist[j].began

\* No other call of hist was in progress while call i was.
Alone(i) ==
  \A k \in 1..Len(hist) :
    k # i => hist[k].ended < hist[i].began \/ hist[k].began > hist[i].ended

\* Every call made has returned, call j is the call that began next after
\* call i, and each of the two ran alone.
OneAfterTheOther(i, j) ==
  /\ \A p \in Callers : IsIdle(p)
  /\ Alone(i)
  /\ Alone(j)
  /\ hist[j].began = hist[i].began + 1

\* C21: the scheduler takes no lock, and two calls for one device and
\* command can interleave their read, delete and insert steps so that the
\* schedule ends with two entries of the command, or a due entry is fired
\* twice.  When two calls that arm the command overlap and the second to
\* return read the schedule before the first inserted, the schedule holds two
\* entries of the command or more when both have returned, while two
\* update_command calls made one after the other on a schedule with at most
\* one entry of the command leave exactly one; and a check saves one
\* notification for every entry it read as due, whatever another call has
\* done to the entry since.
C21_InterleavedCallsDuplicate ==
  /\ \A i, j \in 1..Len(hist) :
        SameCommand(i, j) =>
          /\ (Overlapped(i, j) /\ hist[i].saved \cap hist[j].seen = {})
               => Cardinality(EntriesOf(hist[j].post, hist[j].device, hist[j].command)) >= 2
          /\ ( /\ OneAfterTheOther(i, j)
               /\ hist[i].op = "update_command"
               /\ hist[j].op = "update_command"
               /\ Cardinality(EntriesOf(hist[i].pre, hist[i].device, hist[i].command)) <= 1 )
               => Cardinality(EntriesOf(hist[j].post, hist[j].device, hist[j].command)) = 1
  /\ \A i \in 1..Len(hist) :
        hist[i].op = "check" =>
          /\ Cardinality(hist[i].emitted) = Len(hist[i].due)
          /\ hist[i].emitted \subseteq
               {n.key : n \in Shard(hist[i].post, DS_notifications_KEY, hist[i].device)}

\* Two update_command calls overlapped on a schedule that held one entry of
\* their command, each deleted that entry, and the schedule holds two.
C21_Witness ==
  \E i, j \in 1..Len(hist) :
    /\ SameCommand(i, j)
    /\ hist[i].op = "update_command"
    /\ hist[j].op = "update_command"
    /\ Overlapped(i, j)
    /\ Cardinality(EntriesOf(hist[i].pre, hist[i].device, hist[i].command)) = 1
    /\ hist[i].found # None
    /\ hist[i].found = hist[j].found
    /\ Cardinality(EntriesOf(hist[j].post, hist[j].device, hist[j].command)) = 2

\* ----------------------------------------------------- concurrent start/stop
\* Call j of hist is a Runs.stop that read a run entity.
IsStopOfRun(j) == hist[j].op = "stop" /\ hist[j].found # None

\* Call i of hist is a Runs.start for the device of call j.
IsStartFor(i, j) == hist[i].op = "start" /\ hist[i].device = hist[j].device

\* The run entities of the device of call j when call j returned.
RunsAfter(j) == Shard(hist[j].post, runs_property, hist[j].device)

C23_StopOnlyEndsOpenRun ==
  \A j \in 1..Len(hist) :
    ( /\ hist[j].op = "stop"
      /\ \A p \in Callers : IsIdle(p)
      /\ Alone(j)
      /\ (hist[j].found = None \/ hist[j].found[1].data.end # None) )
    => RunsAfter(j) = Shard(hist[j].pre, runs_property, hist[j].device)

====
